---- MODULE Spec2Model ----
(***************************************************************************)
(* League Manager coordination layer of the Agent League System.           *)
(*                                                                         *)
(* Thirteen specifications share the state below.                          *)
(*   Spec      the League Manager server behind its HTTP transport: the    *)
(*             transport is http.server.HTTPServer driven by one           *)
(*             serve_forever thread, so one request is handled at a time   *)
(*             and requests arriving meanwhile wait in the listen backlog. *)
(*   FairSpec  Spec with the server thread scheduled while it has a step   *)
(*             of a running handler to take.                               *)
(*   UnitSpec  the LeagueState / RegistrationHandler / AuthManager objects *)
(*             called directly through their public methods, as the        *)
(*             repository's unit tests do.                                 *)
(*   AuthSpec  an AuthManager alone: issue, verify and invalidate calls.   *)
(*   SchedSpec RoundRobinScheduler.generate_schedule applied to every list *)
(*             of distinct player IDs up to a bound.                       *)
(*   AssignSpec MatchAssigner.assign_pending_matches applied to every      *)
(*             store of referees and matches up to a bound.                *)
(*   ReportSpec the message handler called with MATCH_RESULT_REPORT and    *)
(*             QUERY_STANDINGS requests of an ACTIVE league of three       *)
(*             players.                                                    *)
(*   StandSpec StandingsEngine.compute_standings applied to every store of *)
(*             players and results up to a bound.                          *)
(*   PublishSpec StandingsEngine.publish_standings statement by statement, *)
(*             with get_standings calls of other threads in between.       *)
(*   RefereeSpec the referee's match thread: one tic-tac-toe match from    *)
(*             its assignment to the end of execute_match_async.           *)
(*   RpcSpec   one POST through the transport and _handle_request, from    *)
(*             the parsed JSON-RPC body to the response on the socket.     *)
(*   RestartSpec LeagueState.initialize and transition_to on a store that  *)
(*             outlives the process, transition_to statement by statement. *)
(*   LockSpec  two threads calling one AuthManager, every method body      *)
(*             under the manager's lock.                                   *)
(*                                                                         *)
(* Agent IDs are the naturals 1..n; their order stands for the             *)
(* lexicographic order of the ID strings.  A sender string "type:id" is    *)
(* the tuple <<type, id>>; the sender "admin" is the 1-tuple <<"admin">>.  *)
(***************************************************************************)
EXTENDS Naturals, Integers, Sequences, FiniteSets, TLC

\* ---- bounds ----------------------------------------------------------------
NumRefIds == 1
NumPlayerIds == 2
MaxBacklog == 1
\* uuid4 values an AuthManager called directly draws at most
MaxUuids == 3
\* players in a list handed to the scheduler called directly
MaxSchedPlayers == 5
\* referees and matches in the store of a MatchAssigner called directly
MaxAssignReferees == 2
MaxAssignMatches == 3
NumReportPlayers == 3
\* players and results in the store of a StandingsEngine called directly
MaxStandPlayers == 3
MaxStandResults == 2
\* publish_standings calls on a StandingsEngine called directly
MaxPublishes == 2

RefIds == 1..NumRefIds
PlayerIds == 1..NumPlayerIds
AgentIds == RefIds \cup PlayerIds

\* ---- program constants ------------------------------------------------------
min_referees == 1
min_players == 2
max_wait_seconds == 10
\* poll_interval = 0.5 s: the clock of the readiness wait counts half seconds
polls_per_second == 2
board_size == 3
store_player_ranking_parameters == 8

LeagueStatus == {"INIT", "REGISTRATION", "SCHEDULING", "ACTIVE", "COMPLETED"}
AgentStatus == {"REGISTERED", "ACTIVE", "SUSPENDED", "SHUTDOWN"}

VARIABLES
    status,         \* LeagueState._status (in memory)
    db_league,      \* leagues.status of the league's row (persisted)
    referees,       \* referees table: referee_id -> row
    players,        \* players table: player_id -> row
    rounds,         \* rounds table, in insertion order
    matches,        \* matches table, in insertion order; match id = index
    results,        \* match_results table, in insertion order
    snapshots,      \* standings_snapshots rows with their player_rankings
    tokens,         \* AuthManager._tokens: token -> identity
    agent_tokens,   \* AuthManager._agent_tokens: agent_id -> token
    uuid_ctr,       \* number of uuid4 values drawn for tokens so far
    delivered,      \* MATCH_ASSIGNMENT messages a referee has received
    pc,             \* position of the server thread
    loc,            \* locals of the running admin-start handler
    backlog,        \* requests that arrived while the server thread was busy
    req,            \* the request (or method call) being answered
    resp,           \* its response (or return value)
    pre             \* the state of the league when that request was taken up

authVars == <<tokens, agent_tokens, uuid_ctr>>
dbVars == <<db_league, referees, players, rounds, matches, results, snapshots>>
stateVars == <<status, db_league, referees, players, rounds, matches, results,
               snapshots, tokens, agent_tokens, uuid_ctr>>
vars == <<status, db_league, referees, players, rounds, matches, results,
          snapshots, tokens, agent_tokens, uuid_ctr, delivered, pc, loc,
          backlog, req, resp, pre>>

Snapshot ==
    [status |-> status, db_league |-> db_league, referees |-> referees,
     players |-> players, rounds |-> rounds, matches |-> matches,
     results |-> results, snapshots |-> snapshots, tokens |-> tokens,
     agent_tokens |-> agent_tokens, delivered |-> delivered]

\* ---- requests and responses --------------------------------------------------
ExemptTypes == {"REGISTER_REFEREE_REQUEST", "REGISTER_PLAYER_REQUEST",
                "ADMIN_START_LEAGUE_REQUEST", "ADMIN_GET_STATUS_REQUEST"}
HandledTypes == ExemptTypes \cup
    {"MATCH_RESULT_REPORT", "QUERY_STANDINGS", "AGENT_READY_REQUEST"}

Senders == {<<"referee", i>> : i \in RefIds} \cup
           {<<"player", i>> : i \in PlayerIds}

\* token 0 is an envelope without auth_token; the others are uuid strings
TokenValues == 0..Cardinality(AgentIds)
MaxMatchId == (NumPlayerIds * (NumPlayerIds - 1)) \div 2
Outcomes == {"first", "second", "draw"}
\* the round IDs a report or a query may name; 0 is none
MaxRoundId == 1

\* round: the round_id of the envelope of a result report or of the payload
\* of a standings query (0: none)
Msg(t, s, tok, a, e, m, o, n) ==
    [type |-> t, sender |-> s, token |-> tok, agent |-> a, endpoint |-> e,
     match |-> m, outcome |-> o, new_status |-> n, round |-> 0]

WithRound(m, round_id) == [m EXCEPT !.round = round_id]

NoReq == Msg("none", <<"admin">>, 0, 0, FALSE, 0, "none", "none")

\* ok: success response or error response; error: the ErrorCode name;
\* token: the auth_token of a registration response; league_status: the
\* league_status of an admin-start response; handler: whether the message
\* handler was called; standings: the ranking list of a standings response
Response(ok, err, tok, ls, handled) ==
    [ok |-> ok, error |-> err, token |-> tok, league_status |-> ls,
     handler |-> handled, standings |-> <<>>]

NoResp == Response(FALSE, "none", 0, "none", FALSE)
Success == Response(TRUE, "none", 0, "none", TRUE)
Granted(tok) == Response(TRUE, "none", tok, "none", TRUE)
Started(ls) == Response(TRUE, "none", 0, ls, TRUE)
Standings(rankings) == [Success EXCEPT !.standings = rankings]
HandlerError(err) == Response(FALSE, err, 0, "none", TRUE)
Rejected(err) == Response(FALSE, err, 0, "none", FALSE)

\* ErrorCode: the number of an error name
ErrorCode(name) ==
    CASE name = "AUTHENTICATION_FAILED" -> 4009
      [] name = "AUTHORIZATION_FAILED" -> 4010
      [] name = "DUPLICATE_REGISTRATION" -> 4011
      [] name = "REGISTRATION_CLOSED" -> 4012
      [] name = "DUPLICATE_RESULT" -> 4017
      [] name = "VALIDATION_ERROR" -> 4018
      [] name = "PRECONDITION_FAILED" -> 4019
      [] name = "INTERNAL_ERROR" -> 5000
      [] name = "DATABASE_ERROR" -> 5001
      [] OTHER -> 0

\* ---- AuthManager -------------------------------------------------------------
\* issue_token: the token the call returns
issued_token(agent_id) ==
    IF agent_id \in DOMAIN agent_tokens THEN agent_tokens[agent_id]
    ELSE uuid_ctr + 1

\* an issue_token that mints a token on every call
issue_token_always_minting(agent_id, agent_type) ==
    /\ tokens' = tokens @@
         ((uuid_ctr + 1) :> [agent_id |-> agent_id, agent_type |-> agent_type])
    /\ agent_tokens' = [i \in DOMAIN agent_tokens \cup {agent_id} |->
                           IF i = agent_id THEN uuid_ctr + 1 ELSE agent_tokens[i]]
    /\ uuid_ctr' = uuid_ctr + 1

\* issue_token: the effect on the two maps, under the lock
issue_token(agent_id, agent_type) ==
    IF agent_id \in DOMAIN agent_tokens
    THEN UNCHANGED authVars
    ELSE /\ tokens' = tokens @@
              ((uuid_ctr + 1) :> [agent_id |-> agent_id, agent_type |-> agent_type])
         /\ agent_tokens' = agent_tokens @@ (agent_id :> (uuid_ctr + 1))
         /\ uuid_ctr' = uuid_ctr + 1

validate_token(toks, token) == token \in DOMAIN toks

\* an expected sender built as "type:id" for the league manager as well
expected_sender_always_typed(info) == <<info.agent_type, info.agent_id>>

expected_sender(info) ==
    IF info.agent_type = "league_manager" THEN <<"league_manager">>
    ELSE <<info.agent_type, info.agent_id>>

\* a verify_sender that validates the token and does not compare the sender
verify_sender_token_only(toks, token, sender) ==
    IF ~validate_token(toks, token) THEN "AUTHENTICATION_FAILED" ELSE "ok"

\* verify_sender: "ok", or the error it raises
verify_sender(toks, token, sender) ==
    IF ~validate_token(toks, token) THEN "AUTHENTICATION_FAILED"
    ELSE IF sender # expected_sender(toks[token]) THEN "AUTHORIZATION_FAILED"
    ELSE "ok"

\* del d[key]
without(d, key) == [x \in DOMAIN d \ {key} |-> d[x]]

invalidate_token(token) ==
    IF token \in DOMAIN tokens
    THEN /\ tokens' = without(tokens, token)
         /\ agent_tokens' = without(agent_tokens, tokens[token].agent_id)
         /\ UNCHANGED uuid_ctr
    ELSE UNCHANGED authVars

invalidate_agent(agent_id) ==
    IF agent_id \in DOMAIN agent_tokens
    THEN /\ tokens' = without(tokens, agent_tokens[agent_id])
         /\ agent_tokens' = without(agent_tokens, agent_id)
         /\ UNCHANGED uuid_ctr
    ELSE UNCHANGED authVars

\* ---- LeagueState ---------------------------------------------------------------
valid_transitions(cur) ==
    CASE cur = "INIT" -> {"REGISTRATION"}
      [] cur = "REGISTRATION" -> {"SCHEDULING"}
      [] cur = "SCHEDULING" -> {"ACTIVE"}
      [] cur = "ACTIVE" -> {"COMPLETED"}
      [] OTHER -> {}

\* a transition table that also accepts the current status as a target
transition_ok_with_self_loops(cur, new_status) ==
    new_status \in valid_transitions(cur) \cup {cur}

\* a transition table that lets an ACTIVE league be scheduled again
transition_ok_rescheduling(cur, new_status) ==
    \/ new_status \in valid_transitions(cur)
    \/ cur = "ACTIVE" /\ new_status = "SCHEDULING"

\* a transition_to without the table lookup
transition_ok_unchecked(cur, new_status) == TRUE

\* transition_to: does the call return True?
transition_ok(cur, new_status) == new_status \in valid_transitions(cur)

\* a registration window that stays open until the league is ACTIVE
is_registration_open_while_scheduling == status \in {"REGISTRATION", "SCHEDULING"}

is_registration_open == status = "REGISTRATION"

\* a count of the referee rows whatever their status
get_referee_count_any_status(refs) == Cardinality(DOMAIN refs)

get_referee_count(refs) ==
    Cardinality({i \in DOMAIN refs : refs[i].status \in {"REGISTERED", "ACTIVE"}})

get_player_count(pls) ==
    Cardinality({i \in DOMAIN pls : pls[i].status \in {"REGISTERED", "ACTIVE"}})

\* a player list of the players that have signalled ready only
get_active_players_ready_only(pls) ==
    {i \in DOMAIN pls : pls[i].status = "ACTIVE"}

get_active_players(pls) ==
    {i \in DOMAIN pls : pls[i].status \in {"REGISTERED", "ACTIVE"}}

\* a quorum that looks at the referees only
can_close_registration_ignoring_players ==
    get_referee_count(referees) >= min_referees

can_close_registration ==
    /\ get_referee_count(referees) >= min_referees
    /\ get_player_count(players) >= min_players

\* transition_to: the in-memory and the persisted status after the call
transition_to(new_status) ==
    IF transition_ok(status, new_status)
    THEN /\ db_league' = new_status
         /\ status' = new_status
    ELSE UNCHANGED <<status, db_league>>

\* get_league: is there a row of the league? ("absent": there is none)
get_league == db_league # "absent"

\* an initialize that writes REGISTRATION whether the league exists or not
initialize_resetting_the_league ==
    /\ db_league' = "REGISTRATION"
    /\ status' = "REGISTRATION"

\* initialize, called on a LeagueState that was just constructed
initialize ==
    IF get_league
    THEN /\ status' = db_league
         /\ UNCHANGED db_league
    ELSE /\ db_league' = "REGISTRATION"
         /\ status' = "REGISTRATION"

\* ---- RoundRobinScheduler -------------------------------------------------------
\* a sorted() that leaves the list in the order it was given
sorted_as_given(s) == s

\* sorted(list): the elements in ascending order, equal ones in list order
RECURSIVE sorted(_)
sorted(s) ==
    IF s = <<>> THEN <<>>
    ELSE LET front == sorted(SubSeq(s, 1, Len(s) - 1))
             x == s[Len(s)]
             k == Cardinality({i \in 1..Len(front) : front[i] <= x})
         IN SubSeq(front, 1, k) \o <<x>> \o SubSeq(front, k + 1, Len(front))

\* itertools.combinations(s, 2), in its order
RECURSIVE combinations_from(_, _, _)
combinations_from(s, i, j) ==
    IF i >= Len(s) THEN <<>>
    ELSE IF j > Len(s) THEN combinations_from(s, i + 1, i + 2)
    ELSE <<(<<s[i], s[j]>>)>> \o combinations_from(s, i, j + 1)

combinations(s) == combinations_from(s, 1, 2)

\* a greedy pass that looks at the first player of a pair only
RECURSIVE select_round_first_player_only(_, _, _)
select_round_first_player_only(remaining, k, players_in_round) ==
    IF k > Len(remaining) THEN <<>>
    ELSE LET m == remaining[k]
         IN IF m[1] \notin players_in_round
            THEN <<m>> \o select_round_first_player_only(remaining, k + 1,
                                       players_in_round \cup {m[1], m[2]})
            ELSE select_round_first_player_only(remaining, k + 1, players_in_round)

\* one pass of the greedy selection over remaining_matches[k..]
RECURSIVE select_round(_, _, _)
select_round(remaining, k, players_in_round) ==
    IF k > Len(remaining) THEN <<>>
    ELSE LET m == remaining[k]
         IN IF m[1] \notin players_in_round /\ m[2] \notin players_in_round
            THEN <<m>> \o select_round(remaining, k + 1,
                                       players_in_round \cup {m[1], m[2]})
            ELSE select_round(remaining, k + 1, players_in_round)

RECURSIVE group_into_rounds(_)
group_into_rounds(remaining) ==
    IF remaining = <<>> THEN <<>>
    ELSE LET current_round == select_round(remaining, 1, {})
             taken(m) == \E i \in 1..Len(current_round) : current_round[i] = m
         IN <<current_round>> \o
            group_into_rounds(SelectSeq(remaining, LAMBDA m : ~taken(m)))

\* the rounds generate_schedule computes for a list of player IDs
schedule_rounds(player_ids) ==
    IF Len(player_ids) < 2 THEN <<>>
    ELSE group_into_rounds(combinations(sorted(player_ids)))

\* the rows create_round / create_match insert for rounds k.. of the schedule
RECURSIVE round_rows(_, _)
round_rows(rnds, k) ==
    IF k > Len(rnds) THEN <<>>
    ELSE <<[round_number |-> k, status |-> "PENDING"]>> \o round_rows(rnds, k + 1)

RECURSIVE match_rows(_, _, _)
match_rows(rnds, k, first_round_id) ==
    IF k > Len(rnds) THEN <<>>
    ELSE [i \in 1..Len(rnds[k]) |->
             [round_id |-> first_round_id + k - 1, players |-> rnds[k][i],
              status |-> "PENDING", referee_id |-> 0, assigned_at |-> FALSE]]
         \o match_rows(rnds, k + 1, first_round_id)

generate_schedule(player_ids) ==
    LET rnds == schedule_rounds(player_ids)
    IN /\ rounds' = rounds \o round_rows(rnds, 1)
       /\ matches' = matches \o match_rows(rnds, 1, Len(rounds) + 1)

\* ---- LeagueDatabase ----------------------------------------------------------------
\* the orders in which a SELECT without ORDER BY may return a set of rows
Orderings(S) ==
    {f \in [1..Cardinality(S) -> S] : \A i, j \in 1..Cardinality(S) :
                                          f[i] = f[j] => i = j}

\* get_referee / get_player: is there a row with this ID?
get_referee(referee_id) == referee_id \in DOMAIN referees

\* a lookup that finds no row
get_player_finding_none(player_id) == FALSE

get_player(player_id) == player_id \in DOMAIN players

get_match(match_id) == match_id \in 1..Len(matches)

\* a lookup that finds no stored result
get_result_finding_none(match_id) == FALSE

get_result(match_id) ==
    \E i \in 1..Len(results) : results[i].match_id = match_id

\* the INSERT of store_result fails on the UNIQUE match_id of match_results
store_result_fails(match_id) ==
    \E i \in 1..Len(results) : results[i].match_id = match_id

\* the payload a referee reports for the outcome of the game between the two
\* players of a match: per player the outcome and the points
report_payload(pair, outcome) ==
    IF outcome = "draw"
    THEN [outcome |-> (pair[1] :> "draw") @@ (pair[2] :> "draw"),
          points |-> (pair[1] :> 1) @@ (pair[2] :> 1)]
    ELSE LET winner == IF outcome = "first" THEN pair[1] ELSE pair[2]
             loser == IF outcome = "first" THEN pair[2] ELSE pair[1]
         IN [outcome |-> (winner :> "win") @@ (loser :> "loss"),
             points |-> (winner :> 3) @@ (loser :> 0)]

\* get_all_results: the stored rows with outcome and points decoded
get_all_results(result_rows, match_table) ==
    [i \in 1..Len(result_rows) |->
        report_payload(match_table[result_rows[i].match_id].players,
                       result_rows[i].outcome)]

\* ---- StandingsEngine --------------------------------------------------------------
\* the keys of a dict or the rows of a SELECT, in some order
RECURSIVE items(_)
items(S) ==
    IF S = {} THEN <<>>
    ELSE LET x == CHOOSE x \in S : TRUE IN <<x>> \o items(S \ {x})

RECURSIVE sum(_)
sum(s) == IF s = <<>> THEN 0 ELSE Head(s) + sum(Tail(s))

\* points.get(player_id, 0)
points_get(points, player_id) ==
    IF player_id \in DOMAIN points THEN points[player_id] ELSE 0

\* the statistics compute_standings aggregates for the players that occur in
\* the outcome of some result
player_stats(all_results) ==
    LET n == Len(all_results)
        played(i, p) == p \in DOMAIN all_results[i].outcome
        count(p, o) == sum([i \in 1..n |->
            IF played(i, p) /\ all_results[i].outcome[p] = o THEN 1 ELSE 0])
    IN [p \in UNION {DOMAIN all_results[i].outcome : i \in 1..n} |->
          [points |-> sum([i \in 1..n |->
               IF played(i, p) THEN points_get(all_results[i].points, p) ELSE 0]),
           wins |-> count(p, "win"),
           draws |-> count(p, "draw"),
           losses |-> count(p, "loss"),
           matches_played |-> sum([i \in 1..n |-> IF played(i, p) THEN 1 ELSE 0])]]

\* a sort key that prefers the larger player ID among tied players
standings_key_before_larger_id_first(stats, a, b) ==
    \/ stats[a].points > stats[b].points
    \/ /\ stats[a].points = stats[b].points
       /\ \/ stats[a].wins > stats[b].wins
          \/ /\ stats[a].wins = stats[b].wins
             /\ \/ stats[a].draws > stats[b].draws
                \/ stats[a].draws = stats[b].draws /\ a > b

\* the sort key (-points, -wins, -draws, player_id) of a is smaller than
\* that of b
standings_key_before(stats, a, b) ==
    \/ stats[a].points > stats[b].points
    \/ /\ stats[a].points = stats[b].points
       /\ \/ stats[a].wins > stats[b].wins
          \/ /\ stats[a].wins = stats[b].wins
             /\ \/ stats[a].draws > stats[b].draws
                \/ stats[a].draws = stats[b].draws /\ a < b

\* sorted(player_stats.items(), key=...): a stable sort by the key
RECURSIVE sorted_players(_, _)
sorted_players(stats, s) ==
    IF s = <<>> THEN <<>>
    ELSE LET front == sorted_players(stats, SubSeq(s, 1, Len(s) - 1))
             x == s[Len(s)]
             k == Cardinality({i \in 1..Len(front) :
                                  ~standings_key_before(stats, x, front[i])})
         IN SubSeq(front, 1, k) \o <<x>> \o SubSeq(front, k + 1, Len(front))

\* PlayerRanking: the ranking values publish_standings hands to
\* store_player_ranking
PlayerRanking(rank, stats) ==
    [rank |-> rank, points |-> stats.points, wins |-> stats.wins,
     draws |-> stats.draws, losses |-> stats.losses,
     matches_played |-> stats.matches_played]

\* one entry of the rankings list
ranking(player_id, rank, stats) ==
    [player_id |-> player_id, rank |-> rank, points |-> stats.points,
     wins |-> stats.wins, draws |-> stats.draws, losses |-> stats.losses,
     matches_played |-> stats.matches_played]

no_matches == [points |-> 0, wins |-> 0, draws |-> 0, losses |-> 0,
               matches_played |-> 0]

\* standings that list the players with results only
compute_standings_results_only(all_results, all_players) ==
    LET stats == player_stats(all_results)
        ordered == sorted_players(stats, items(DOMAIN stats))
    IN [i \in 1..Len(ordered) |-> ranking(ordered[i], i, stats[ordered[i]])]

\* compute_standings: the rankings list for the results and the registered
\* players of the league
compute_standings(all_results, all_players) ==
    LET stats == player_stats(all_results)
        ordered == sorted_players(stats, items(DOMAIN stats))
        rankings == [i \in 1..Len(ordered) |->
                        ranking(ordered[i], i, stats[ordered[i]])]
        players_without_matches == sorted(items(all_players \ DOMAIN stats))
    IN rankings \o
       [i \in 1..Len(players_without_matches) |->
           ranking(players_without_matches[i], Len(rankings) + i, no_matches)]

\* the arguments of the store_player_ranking call of publish_standings
store_player_ranking_call(snapshot_id, r) ==
    <<snapshot_id, r.player_id, PlayerRanking(r.rank, r)>>

\* a store_player_ranking that takes every call
store_player_ranking_accepting(arguments) == FALSE

\* store_player_ranking has eight parameters after self, none with a default:
\* a call with another number of arguments raises TypeError
store_player_ranking_raises(arguments) ==
    Len(arguments) # store_player_ranking_parameters

\* the rows of player_rankings that publish_standings stores for the new
\* snapshot before it returns or raises
RECURSIVE stored_rankings(_, _)
stored_rankings(snapshot_id, rankings) ==
    IF rankings = <<>> THEN <<>>
    ELSE IF store_player_ranking_raises(
                store_player_ranking_call(snapshot_id, Head(rankings)))
    THEN <<>>
    ELSE <<Head(rankings)>> \o stored_rankings(snapshot_id, Tail(rankings))

\* publish_standings raises: a store_player_ranking call failed
publish_raises(snapshot_id, rankings) ==
    stored_rankings(snapshot_id, rankings) # rankings

\* the row create_standings_snapshot inserts, with the rows of
\* player_rankings that carry its snapshot_id
snapshot_row(round_id, rankings) ==
    [round_id |-> round_id, rankings |-> rankings]

\* get_standings: the rankings of the latest snapshot (of the round, when
\* round_id is given) in rank order, or no standings (FALSE)
get_standings(snapshot_rows, round_id) ==
    LET scope == {i \in 1..Len(snapshot_rows) :
                     round_id = 0 \/ snapshot_rows[i].round_id = round_id}
    IN IF scope = {} THEN [found |-> FALSE, snapshot_id |-> 0, rankings |-> <<>>]
       ELSE LET latest == CHOOSE i \in scope : \A j \in scope : j <= i
            IN [found |-> TRUE, snapshot_id |-> latest,
                rankings |-> snapshot_rows[latest].rankings]

\* the INSERT of register_referee / register_player fails on the PRIMARY KEY
\* (the ID) or on the UNIQUE auth_token of the table
insert_fails(rows, id, auth_token) ==
    id \in DOMAIN rows \/ \E j \in DOMAIN rows : rows[j].auth_token = auth_token

\* ---- RegistrationHandler ---------------------------------------------------------
register_referee(referee_id, endpoint_url) ==
    IF ~is_registration_open
    THEN resp' = HandlerError("REGISTRATION_CLOSED") /\ UNCHANGED stateVars
    ELSE IF get_referee(referee_id)
    THEN resp' = HandlerError("DUPLICATE_REGISTRATION") /\ UNCHANGED stateVars
    ELSE /\ issue_token(referee_id, "referee")
         /\ IF insert_fails(referees, referee_id, issued_token(referee_id))
            THEN resp' = HandlerError("DATABASE_ERROR") /\ UNCHANGED referees
            ELSE /\ referees' = referees @@ (referee_id :>
                      [status |-> "REGISTERED",
                       auth_token |-> issued_token(referee_id),
                       endpoint_url |-> endpoint_url])
                 /\ resp' = Granted(issued_token(referee_id))
         /\ UNCHANGED <<status, db_league, players, rounds, matches, results, snapshots>>

register_player(player_id) ==
    IF ~is_registration_open
    THEN resp' = HandlerError("REGISTRATION_CLOSED") /\ UNCHANGED stateVars
    ELSE IF get_referee_count(referees) = 0
    THEN resp' = HandlerError("PRECONDITION_FAILED") /\ UNCHANGED stateVars
    ELSE IF get_player(player_id)
    THEN resp' = HandlerError("DUPLICATE_REGISTRATION") /\ UNCHANGED stateVars
    ELSE /\ issue_token(player_id, "player")
         /\ IF insert_fails(players, player_id, issued_token(player_id))
            THEN resp' = HandlerError("DATABASE_ERROR") /\ UNCHANGED players
            ELSE /\ players' = players @@ (player_id :>
                      [status |-> "REGISTERED",
                       auth_token |-> issued_token(player_id)])
                 /\ resp' = Granted(issued_token(player_id))
         /\ UNCHANGED <<status, db_league, referees, rounds, matches, results, snapshots>>

\* ---- League Manager server: requests ------------------------------------------------
\* the inbound requests the environment may send; agent 0 is a payload without
\* the ID field, match 0 an envelope without match_id, and GAME_OVER stands
\* for the message types the server has no handler for
RegistrationRequests ==
    {Msg("REGISTER_REFEREE_REQUEST", <<"referee", 1>>, 0, i, e, 0, "none", "none") :
        i \in 0..NumRefIds, e \in BOOLEAN} \cup
    {Msg("REGISTER_PLAYER_REQUEST", <<"player", 1>>, 0, i, TRUE, 0, "none", "none") :
        i \in 0..NumPlayerIds}

AdminRequests ==
    {Msg(t, <<"admin">>, 0, 0, FALSE, 0, "none", "none") :
        t \in {"ADMIN_START_LEAGUE_REQUEST", "ADMIN_GET_STATUS_REQUEST"}}

AgentRequests ==
    {Msg(t, s, tok, 0, FALSE, 0, "none", "none") :
        t \in {"AGENT_READY_REQUEST", "QUERY_STANDINGS", "GAME_OVER"},
        s \in Senders, tok \in TokenValues}

\* a standings query for one round
RoundQueries ==
    {WithRound(Msg("QUERY_STANDINGS", s, tok, 0, FALSE, 0, "none", "none"),
               round_id) :
        s \in Senders, tok \in TokenValues, round_id \in 1..MaxRoundId}

ResultReports ==
    {WithRound(Msg("MATCH_RESULT_REPORT", s, tok, 0, FALSE, m, o, "none"),
               round_id) :
        s \in Senders, tok \in TokenValues, m \in 0..MaxMatchId,
        o \in Outcomes, round_id \in 0..MaxRoundId}

Requests == RegistrationRequests \cup AdminRequests \cup AgentRequests
            \cup RoundQueries \cup ResultReports

\* _handle_request: the authentication gate in front of the handlers
auth_error(r) ==
    IF r.token = 0 THEN "VALIDATION_ERROR"
    ELSE verify_sender(tokens, r.token, r.sender)

authenticated(r) == r.type \in ExemptTypes \/ auth_error(r) = "ok"

\* ---- League Manager server: handlers ---------------------------------------------
\* a handler that marks every registered agent of the sender's type ACTIVE
agent_ready_activating_the_type(sender) ==
    IF Len(sender) # 2
    THEN resp' = HandlerError("VALIDATION_ERROR") /\ UNCHANGED stateVars
    ELSE IF sender[1] = "referee"
    THEN IF ~get_referee(sender[2])
         THEN resp' = HandlerError("VALIDATION_ERROR") /\ UNCHANGED stateVars
         ELSE /\ referees' = [r \in DOMAIN referees |->
                                 [referees[r] EXCEPT !.status = "ACTIVE"]]
              /\ resp' = Success
              /\ UNCHANGED <<status, db_league, players, rounds, matches,
                             results, snapshots, authVars>>
    ELSE IF sender[1] = "player"
    THEN IF ~get_player(sender[2])
         THEN resp' = HandlerError("VALIDATION_ERROR") /\ UNCHANGED stateVars
         ELSE /\ players' = [p \in DOMAIN players |->
                                [players[p] EXCEPT !.status = "ACTIVE"]]
              /\ resp' = Success
              /\ UNCHANGED <<status, db_league, referees, rounds, matches,
                             results, snapshots, authVars>>
    ELSE resp' = HandlerError("VALIDATION_ERROR") /\ UNCHANGED stateVars

\* _handle_agent_ready
agent_ready(sender) ==
    IF Len(sender) # 2
    THEN resp' = HandlerError("VALIDATION_ERROR") /\ UNCHANGED stateVars
    ELSE IF sender[1] = "referee"
    THEN IF ~get_referee(sender[2])
         THEN resp' = HandlerError("VALIDATION_ERROR") /\ UNCHANGED stateVars
         ELSE /\ referees' = [referees EXCEPT ![sender[2]].status = "ACTIVE"]
              /\ resp' = Success
              /\ UNCHANGED <<status, db_league, players, rounds, matches,
                             results, snapshots, authVars>>
    ELSE IF sender[1] = "player"
    THEN IF ~get_player(sender[2])
         THEN resp' = HandlerError("VALIDATION_ERROR") /\ UNCHANGED stateVars
         ELSE /\ players' = [players EXCEPT ![sender[2]].status = "ACTIVE"]
              /\ resp' = Success
              /\ UNCHANGED <<status, db_league, referees, rounds, matches,
                             results, snapshots, authVars>>
    ELSE resp' = HandlerError("VALIDATION_ERROR") /\ UNCHANGED stateVars

\* a standings handler that wants a published snapshot
query_standings_requiring_a_snapshot(round_id) ==
    LET standings == get_standings(snapshots, round_id)
    IN IF standings.found THEN Standings(standings.rankings)
       ELSE HandlerError("VALIDATION_ERROR")

\* _handle_query_standings: the response
query_standings(round_id) ==
    LET standings == get_standings(snapshots, round_id)
    IN IF standings.found THEN Standings(standings.rankings)
       ELSE Standings(<<>>)

\* the completion check: no PENDING match and no match that is not COMPLETED
all_matches_completed(ms) == \A i \in 1..Len(ms) : ms[i].status = "COMPLETED"

\* the rest of _handle_match_result once the result is stored and the match
\* COMPLETED: publish_standings (the snapshot row, then the rankings), then
\* the completion check; an exception of publish_standings that is not a
\* LeagueError ends the handler with INTERNAL_ERROR
publish_standings(round_id) ==
    LET snapshot_id == Len(snapshots) + 1
        rankings == compute_standings(get_all_results(results', matches),
                                      DOMAIN players)
    IN /\ snapshots' = Append(snapshots,
              snapshot_row(round_id, stored_rankings(snapshot_id, rankings)))
       /\ IF publish_raises(snapshot_id, rankings)
          THEN /\ resp' = HandlerError("INTERNAL_ERROR")
               /\ UNCHANGED <<status, db_league>>
          ELSE /\ IF all_matches_completed(matches')
                  THEN transition_to("COMPLETED")
                  ELSE UNCHANGED <<status, db_league>>
               /\ resp' = Success

\* a handler that writes the result with INSERT OR REPLACE and does not look
\* for a stored one
match_result_replacing_the_row(match_id, outcome, round_id) ==
    IF match_id = 0 \/ ~get_match(match_id)
    THEN resp' = HandlerError("VALIDATION_ERROR") /\ UNCHANGED stateVars
    ELSE /\ results' = Append(SelectSeq(results, LAMBDA row : row.match_id # match_id),
                              [match_id |-> match_id, outcome |-> outcome])
         /\ matches' = [matches EXCEPT ![match_id].status = "COMPLETED"]
         /\ publish_standings(round_id)
         /\ UNCHANGED <<referees, players, rounds, authVars>>

\* a handler that marks the match COMPLETED and stores no result
match_result_without_the_store(match_id, outcome, round_id) ==
    IF match_id = 0 \/ ~get_match(match_id)
    THEN resp' = HandlerError("VALIDATION_ERROR") /\ UNCHANGED stateVars
    ELSE /\ results' = results
         /\ matches' = [matches EXCEPT ![match_id].status = "COMPLETED"]
         /\ publish_standings(round_id)
         /\ UNCHANGED <<referees, players, rounds, authVars>>

\* _handle_match_result; outcome stands for the payload of the report
\* (outcome, points, game_metadata)
match_result(match_id, outcome, round_id) ==
    IF match_id = 0 \/ ~get_match(match_id)
    THEN resp' = HandlerError("VALIDATION_ERROR") /\ UNCHANGED stateVars
    ELSE IF get_result(match_id)
    THEN resp' = HandlerError("VALIDATION_ERROR") /\ UNCHANGED stateVars
    ELSE IF store_result_fails(match_id)
    THEN resp' = HandlerError("DATABASE_ERROR") /\ UNCHANGED stateVars
    ELSE /\ results' = Append(results, [match_id |-> match_id, outcome |-> outcome])
         /\ matches' = [matches EXCEPT ![match_id].status = "COMPLETED"]
         /\ publish_standings(round_id)
         /\ UNCHANGED <<referees, players, rounds, authVars>>

\* ---- League Manager server: the request loop ---------------------------------------
MaxWaitTicks == max_wait_seconds * polls_per_second

\* locals of close_registration_and_schedule and assign_pending_matches;
\* queued_at remembers the wait clock at which a ready signal of a
\* registered referee joined the backlog (-1: none did)
NoLocals ==
    [waited |-> 0, pending |-> <<>>, active_referees |-> <<>>,
     referee_idx |-> 0, k |-> 1, assignments |-> <<>>, queued_at |-> -1]

NoSnapshot ==
    [status |-> "INIT", db_league |-> "INIT", referees |-> <<>>,
     players |-> <<>>, rounds |-> <<>>, matches |-> <<>>, results |-> <<>>,
     snapshots |-> <<>>, tokens |-> <<>>, agent_tokens |-> <<>>,
     delivered |-> {}]

BusyInHandler == pc \in {"schedule", "activate", "wait", "fetch", "assign",
                         "deliver", "return"}

\* the payload of a request is not read before the authentication gate, so a
\* request that does not pass it is sent with one payload only
NoPayload(r) == r.match = 0 /\ r.outcome = "first" /\ r.round = 0

Sendable ==
    {r \in Requests :
        /\ r.type = "MATCH_RESULT_REPORT" /\ ~NoPayload(r) => authenticated(r)
        /\ r.type = "QUERY_STANDINGS" /\ r.round # 0 => authenticated(r)}

\* the server thread takes a waiting request, or one that arrives now
Incoming == IF backlog # {} THEN backlog ELSE Sendable

Accept(r) ==
    /\ r \in Incoming
    /\ backlog' = backlog \ {r}
    /\ req' = r
    /\ pre' = Snapshot

Answer == pc' = "done" /\ UNCHANGED <<delivered, loc>>

RejectRequest ==
    /\ pc = "idle"
    /\ \E r \in Incoming :
        /\ ~authenticated(r)
        /\ Accept(r)
        /\ resp' = Rejected(auth_error(r))
        /\ Answer
        /\ UNCHANGED stateVars

UnsupportedMessage ==
    /\ pc = "idle"
    /\ \E r \in Incoming :
        /\ r.type \notin HandledTypes
        /\ authenticated(r)
        /\ Accept(r)
        /\ resp' = Rejected("VALIDATION_ERROR")
        /\ Answer
        /\ UNCHANGED stateVars

RegisterReferee ==
    /\ pc = "idle"
    /\ \E r \in Incoming :
        /\ r.type = "REGISTER_REFEREE_REQUEST"
        /\ authenticated(r)
        /\ Accept(r)
        /\ IF r.agent = 0
           THEN resp' = HandlerError("VALIDATION_ERROR") /\ UNCHANGED stateVars
           ELSE register_referee(r.agent, r.endpoint)
        /\ Answer

RegisterPlayer ==
    /\ pc = "idle"
    /\ \E r \in Incoming :
        /\ r.type = "REGISTER_PLAYER_REQUEST"
        /\ authenticated(r)
        /\ Accept(r)
        /\ IF r.agent = 0
           THEN resp' = HandlerError("VALIDATION_ERROR") /\ UNCHANGED stateVars
           ELSE register_player(r.agent)
        /\ Answer

AgentReady ==
    /\ pc = "idle"
    /\ \E r \in Incoming :
        /\ r.type = "AGENT_READY_REQUEST"
        /\ authenticated(r)
        /\ Accept(r)
        /\ agent_ready(r.sender)
        /\ Answer

MatchResultReport ==
    /\ pc = "idle"
    /\ \E r \in Incoming :
        /\ r.type = "MATCH_RESULT_REPORT"
        /\ authenticated(r)
        /\ Accept(r)
        /\ match_result(r.match, r.outcome, r.round)
        /\ Answer

QueryStandings ==
    /\ pc = "idle"
    /\ \E r \in Incoming :
        /\ r.type = "QUERY_STANDINGS"
        /\ authenticated(r)
        /\ Accept(r)
        /\ resp' = query_standings(r.round)
        /\ Answer
        /\ UNCHANGED stateVars

AdminGetStatus ==
    /\ pc = "idle"
    /\ \E r \in Incoming :
        /\ r.type = "ADMIN_GET_STATUS_REQUEST"
        /\ authenticated(r)
        /\ Accept(r)
        /\ resp' = Success
        /\ Answer
        /\ UNCHANGED stateVars

\* ---- admin start: close_registration_and_schedule, step by step ----------------------
\* the quorum check and the transition to SCHEDULING
AdminStartLeague ==
    /\ pc = "idle"
    /\ \E r \in Incoming :
        /\ r.type = "ADMIN_START_LEAGUE_REQUEST"
        /\ authenticated(r)
        /\ Accept(r)
        /\ IF can_close_registration /\ transition_ok(status, "SCHEDULING")
           THEN /\ transition_to("SCHEDULING")
                /\ resp' = NoResp
                /\ pc' = "schedule"
           ELSE /\ UNCHANGED <<status, db_league>>
                /\ resp' = HandlerError("VALIDATION_ERROR")
                /\ pc' = "done"
        /\ UNCHANGED <<referees, players, rounds, matches, results, snapshots, authVars,
                       delivered, loc>>

\* the player rows come from a SELECT without ORDER BY
GenerateSchedule ==
    /\ pc = "schedule"
    /\ \E player_ids \in Orderings(get_active_players(players)) :
          generate_schedule(player_ids)
    /\ pc' = "activate"
    /\ UNCHANGED <<status, db_league, referees, players, results, snapshots, authVars,
                   delivered, loc, backlog, req, resp, pre>>

\* an admin-start that goes on to the assignment without the transition to ACTIVE
Activate_skipping_the_transition ==
    /\ pc = "activate"
    /\ pc' = "wait"
    /\ UNCHANGED <<stateVars, delivered, loc, backlog, req, resp, pre>>

\* the transition to ACTIVE, after the schedule is stored
Activate ==
    /\ pc = "activate"
    /\ transition_to("ACTIVE")
    /\ pc' = "wait"
    /\ UNCHANGED <<referees, players, rounds, matches, results, snapshots, authVars,
                   delivered, loc, backlog, req, resp, pre>>

\* a filter that also lets REGISTERED referees through
active_referee_ids_with_registered(refs) ==
    {i \in DOMAIN refs : refs[i].status \in {"REGISTERED", "ACTIVE"}}

active_referee_ids(refs) == {i \in DOMAIN refs : refs[i].status = "ACTIVE"}

\* one turn of the readiness loop that finds an ACTIVE referee: break
PollSeesReferee ==
    /\ pc = "wait"
    /\ loc.waited < MaxWaitTicks
    /\ active_referee_ids(referees) # {}
    /\ pc' = "fetch"
    /\ UNCHANGED <<stateVars, delivered, loc, backlog, req, resp, pre>>

\* a wait whose timeout fails the start
PollSleeps_failing_on_timeout ==
    /\ pc = "wait"
    /\ loc.waited < MaxWaitTicks
    /\ active_referee_ids(referees) = {}
    /\ loc' = [loc EXCEPT !.waited = @ + 1]
    /\ IF loc.waited + 1 < MaxWaitTicks
       THEN pc' = "wait" /\ UNCHANGED resp
       ELSE pc' = "done" /\ resp' = HandlerError("INTERNAL_ERROR")
    /\ UNCHANGED <<stateVars, delivered, backlog, req, pre>>

\* one turn that finds none: sleep poll_interval, then test the loop condition
PollSleeps ==
    /\ pc = "wait"
    /\ loc.waited < MaxWaitTicks
    /\ active_referee_ids(referees) = {}
    /\ loc' = [loc EXCEPT !.waited = @ + 1]
    /\ pc' = IF loc.waited + 1 < MaxWaitTicks THEN "wait" ELSE "fetch"
    /\ UNCHANGED <<stateVars, delivered, backlog, req, resp, pre>>

pending_match_ids(ms) ==
    SelectSeq([i \in 1..Len(ms) |-> i], LAMBDA i : ms[i].status = "PENDING")

\* assign_pending_matches: the two reads and the early returns
FetchPending ==
    /\ pc = "fetch"
    /\ \E order \in Orderings(active_referee_ids(referees)) :
          IF pending_match_ids(matches) = <<>> \/ order = <<>>
          THEN pc' = "return" /\ UNCHANGED loc
          ELSE /\ loc' = [loc EXCEPT !.pending = pending_match_ids(matches),
                                     !.active_referees = order,
                                     !.referee_idx = 0, !.k = 1,
                                     !.assignments = <<>>]
               /\ pc' = "assign"
    /\ UNCHANGED <<stateVars, delivered, backlog, req, resp, pre>>

current_match == loc.pending[loc.k]
current_referee ==
    loc.active_referees[(loc.referee_idx % Len(loc.active_referees)) + 1]

\* assign_match: database.assign_match
PersistAssignment ==
    /\ pc = "assign"
    /\ matches' = [matches EXCEPT ![current_match].status = "ASSIGNED",
                                  ![current_match].referee_id = current_referee,
                                  ![current_match].assigned_at = TRUE]
    /\ pc' = "deliver"
    /\ UNCHANGED <<status, db_league, referees, players, rounds, results, snapshots,
                   authVars, delivered, loc, backlog, req, resp, pre>>

NextMatch == IF loc.k + 1 > Len(loc.pending) THEN "return" ELSE "assign"

has_endpoint(referee_id) ==
    referee_id \in DOMAIN referees /\ referees[referee_id].endpoint_url

\* assign_match: the MATCH_ASSIGNMENT reaches the referee
DeliverAssignment ==
    /\ pc = "deliver"
    /\ has_endpoint(current_referee)
    /\ delivered' = delivered \cup {<<current_match, current_referee>>}
    /\ loc' = [loc EXCEPT !.assignments = Append(@, current_match),
                          !.referee_idx = @ + 1, !.k = @ + 1]
    /\ pc' = NextMatch
    /\ UNCHANGED <<stateVars, backlog, req, resp, pre>>

\* a failed assignment that ends the loop
DeliveryFails_ending_the_call ==
    /\ pc = "deliver"
    /\ loc' = [loc EXCEPT !.k = @ + 1]
    /\ pc' = "return"
    /\ UNCHANGED <<stateVars, delivered, backlog, req, resp, pre>>

\* assign_match raises (no endpoint, or the send fails); the loop goes on
DeliveryFails ==
    /\ pc = "deliver"
    /\ loc' = [loc EXCEPT !.k = @ + 1]
    /\ pc' = NextMatch
    /\ UNCHANGED <<stateVars, delivered, backlog, req, resp, pre>>

ReturnStarted ==
    /\ pc = "return"
    /\ resp' = Started(status)
    /\ pc' = "done"
    /\ UNCHANGED <<stateVars, delivered, loc, backlog, req, pre>>

\* the response is written to the socket; the thread returns to accept()
Respond ==
    /\ pc = "done"
    /\ pc' = "idle"
    /\ req' = NoReq
    /\ resp' = NoResp
    /\ pre' = NoSnapshot
    /\ loc' = NoLocals
    /\ UNCHANGED <<stateVars, delivered, backlog>>

referee_ready_signal(r) ==
    /\ r.type = "AGENT_READY_REQUEST"
    /\ authenticated(r)
    /\ r.sender[1] = "referee"
    /\ r.sender[2] \in DOMAIN referees

\* a request reaches the listening socket while the server thread is busy.
\* No token is issued while a started admin-start runs or after it, so a
\* request that fails the gate now is answered the same whenever it is
\* served; only requests that pass the gate are followed through the backlog
Arrive ==
    /\ BusyInHandler
    /\ Cardinality(backlog) < MaxBacklog
    /\ \E r \in Sendable :
        /\ authenticated(r)
        /\ r \notin backlog
        /\ backlog' = backlog \cup {r}
        /\ loc' = IF pc = "wait" /\ loc.queued_at < 0 /\ referee_ready_signal(r)
                  THEN [loc EXCEPT !.queued_at = loc.waited]
                  ELSE loc
        /\ UNCHANGED <<stateVars, delivered, pc, req, resp, pre>>

Init ==
    /\ status = "REGISTRATION"
    /\ db_league = "REGISTRATION"
    /\ referees = <<>>
    /\ players = <<>>
    /\ rounds = <<>>
    /\ matches = <<>>
    /\ results = <<>>
    /\ snapshots = <<>>
    /\ tokens = <<>>
    /\ agent_tokens = <<>>
    /\ uuid_ctr = 0
    /\ delivered = {}
    /\ pc = "idle"
    /\ loc = NoLocals
    /\ backlog = {}
    /\ req = NoReq
    /\ resp = NoResp
    /\ pre = NoSnapshot

Next ==
    \/ RejectRequest
    \/ UnsupportedMessage
    \/ RegisterReferee
    \/ RegisterPlayer
    \/ AgentReady
    \/ MatchResultReport
    \/ QueryStandings
    \/ AdminGetStatus
    \/ AdminStartLeague
    \/ GenerateSchedule
    \/ Activate
    \/ PollSeesReferee
    \/ PollSleeps
    \/ FetchPending
    \/ PersistAssignment
    \/ DeliverAssignment
    \/ DeliveryFails
    \/ ReturnStarted
    \/ Respond
    \/ Arrive

Spec == Init /\ [][Next]_vars

\* the server thread is scheduled while it has a step to take; a send to a
\* referee ends, delivered or failed (the HTTP client has a timeout)
HandlerStep ==
    \/ GenerateSchedule
    \/ Activate
    \/ PollSeesReferee
    \/ PollSleeps
    \/ FetchPending
    \/ PersistAssignment
    \/ DeliverAssignment
    \/ DeliveryFails
    \/ ReturnStarted

FairSpec == Spec /\ WF_vars(HandlerStep)

\* ---- the objects called directly -------------------------------------------------------
\* a method call and its return value; a call that returns a bool and
\* raises nothing is Returned(b)
\* the senders of an agent-ready signal: typed agents, the league manager
\* (a sender without an ID) and a sender of another type
ReadySenders ==
    {<<"league_manager">>} \cup
    {<<t, i>> : t \in {"referee", "player", "admin"}, i \in AgentIds}

Call(method, agent, endpoint, new_status) ==
    Msg(method, <<"admin">>, 0, agent, endpoint, 0, "none", new_status)

Returned(b) == Response(b, "none", 0, "none", TRUE)

CallTransitionTo ==
    \E new_status \in LeagueStatus :
        /\ req' = Call("transition_to", 0, FALSE, new_status)
        /\ pre' = Snapshot
        /\ transition_to(new_status)
        /\ resp' = Returned(transition_ok(status, new_status))
        /\ UNCHANGED <<referees, players, rounds, matches, results, snapshots, authVars,
                       delivered, pc, loc, backlog>>

CallRegisterReferee ==
    \E referee_id \in RefIds, endpoint_url \in BOOLEAN :
        /\ req' = Call("REGISTER_REFEREE_REQUEST", referee_id, endpoint_url, "none")
        /\ pre' = Snapshot
        /\ register_referee(referee_id, endpoint_url)
        /\ UNCHANGED <<delivered, pc, loc, backlog>>

CallRegisterPlayer ==
    \E player_id \in PlayerIds :
        /\ req' = Call("REGISTER_PLAYER_REQUEST", player_id, TRUE, "none")
        /\ pre' = Snapshot
        /\ register_player(player_id)
        /\ UNCHANGED <<delivered, pc, loc, backlog>>

\* LeagueDatabase.update_referee_status
CallUpdateRefereeStatus ==
    \E referee_id \in DOMAIN referees, new_status \in AgentStatus :
        /\ req' = Call("update_referee_status", referee_id, FALSE, new_status)
        /\ pre' = Snapshot
        /\ referees' = [referees EXCEPT ![referee_id].status = new_status]
        /\ resp' = Returned(TRUE)
        /\ UNCHANGED <<status, db_league, players, rounds, matches, results, snapshots,
                       authVars, delivered, pc, loc, backlog>>

\* _handle_agent_ready called with the sender of an envelope
CallAgentReady ==
    \E sender \in ReadySenders :
        /\ req' = Msg("AGENT_READY_REQUEST", sender, 0, 0, FALSE, 0, "none", "none")
        /\ pre' = Snapshot
        /\ agent_ready(sender)
        /\ UNCHANGED <<delivered, pc, loc, backlog>>

\* LeagueState.initialize has run: the league row exists, at REGISTRATION if it
\* was created now and at its stored status if it was there already
UnitInit ==
    /\ status \in LeagueStatus
    /\ db_league = status
    /\ referees = <<>>
    /\ players = <<>>
    /\ rounds = <<>>
    /\ matches = <<>>
    /\ results = <<>>
    /\ snapshots = <<>>
    /\ tokens = <<>>
    /\ agent_tokens = <<>>
    /\ uuid_ctr = 0
    /\ delivered = {}
    /\ pc = "idle"
    /\ loc = NoLocals
    /\ backlog = {}
    /\ req = NoReq
    /\ resp = NoResp
    /\ pre = NoSnapshot

UnitNext ==
    \/ CallTransitionTo
    \/ CallRegisterReferee
    \/ CallRegisterPlayer
    \/ CallUpdateRefereeStatus
    \/ CallAgentReady

UnitSpec == UnitInit /\ [][UnitNext]_vars

\* ---- the AuthManager called directly ---------------------------------------------------
AgentTypes == {"league_manager", "referee", "player"}

\* the sender strings a caller may present
SenderStrings == {<<"league_manager">>} \cup
                 {<<t, i>> : t \in AgentTypes, i \in AgentIds}

AuthCall(method, sender, token, agent, agent_type) ==
    Msg(method, sender, token, agent, FALSE, 0, "none", agent_type)

CallIssueToken ==
    \E agent_id \in AgentIds, agent_type \in AgentTypes :
        /\ agent_id \in DOMAIN agent_tokens \/ uuid_ctr < MaxUuids
        /\ req' = AuthCall("issue_token", <<"admin">>, 0, agent_id, agent_type)
        /\ pre' = Snapshot
        /\ issue_token(agent_id, agent_type)
        /\ resp' = Granted(issued_token(agent_id))
        /\ UNCHANGED <<status, dbVars, delivered, pc, loc, backlog>>

\* token 0 is a string that was never issued
CallVerifySender ==
    \E token \in 0..MaxUuids, sender \in SenderStrings :
        /\ req' = AuthCall("verify_sender", sender, token, 0, "none")
        /\ pre' = Snapshot
        /\ resp' = IF verify_sender(tokens, token, sender) = "ok" THEN Success
                    ELSE HandlerError(verify_sender(tokens, token, sender))
        /\ UNCHANGED <<stateVars, delivered, pc, loc, backlog>>

CallInvalidateToken ==
    \E token \in 0..MaxUuids :
        /\ req' = AuthCall("invalidate_token", <<"admin">>, token, 0, "none")
        /\ pre' = Snapshot
        /\ invalidate_token(token)
        /\ resp' = Success
        /\ UNCHANGED <<status, dbVars, delivered, pc, loc, backlog>>

CallInvalidateAgent ==
    \E agent_id \in AgentIds :
        /\ req' = AuthCall("invalidate_agent", <<"admin">>, 0, agent_id, "none")
        /\ pre' = Snapshot
        /\ invalidate_agent(agent_id)
        /\ resp' = Success
        /\ UNCHANGED <<status, dbVars, delivered, pc, loc, backlog>>

\* a new AuthManager
AuthInit ==
    /\ status = "REGISTRATION"
    /\ db_league = "REGISTRATION"
    /\ referees = <<>>
    /\ players = <<>>
    /\ rounds = <<>>
    /\ matches = <<>>
    /\ results = <<>>
    /\ snapshots = <<>>
    /\ tokens = <<>>
    /\ agent_tokens = <<>>
    /\ uuid_ctr = 0
    /\ delivered = {}
    /\ pc = "idle"
    /\ loc = NoLocals
    /\ backlog = {}
    /\ req = NoReq
    /\ resp = NoResp
    /\ pre = NoSnapshot

AuthNext ==
    \/ CallIssueToken
    \/ CallVerifySender
    \/ CallInvalidateToken
    \/ CallInvalidateAgent

AuthSpec == AuthInit /\ [][AuthNext]_vars

\* ---- the RoundRobinScheduler called directly -------------------------------------------
SchedIds == 1..MaxSchedPlayers

\* the lists of distinct player IDs, in every order
PlayerLists == UNION {Orderings(S) : S \in SUBSET SchedIds}

\* generate_schedule on a league without rounds; it returns the schedule info
CallGenerateSchedule ==
    /\ pc = "schedule"
    /\ req.type = "generate_schedule"
    /\ generate_schedule(req.agent)
    /\ resp' = Success
    /\ pc' = "done"
    /\ UNCHANGED <<status, db_league, referees, players, results, snapshots, authVars,
                   delivered, loc, backlog, req, pre>>

SchedInit ==
    /\ status = "SCHEDULING"
    /\ db_league = "SCHEDULING"
    /\ referees = <<>>
    /\ players = <<>>
    /\ rounds = <<>>
    /\ matches = <<>>
    /\ results = <<>>
    /\ snapshots = <<>>
    /\ tokens = <<>>
    /\ agent_tokens = <<>>
    /\ uuid_ctr = 0
    /\ delivered = {}
    /\ pc = "schedule"
    /\ loc = NoLocals
    /\ backlog = {}
    /\ req \in {Call("generate_schedule", player_ids, FALSE, "none") :
                   player_ids \in PlayerLists}
    /\ resp = NoResp
    /\ pre = NoSnapshot

SchedNext == CallGenerateSchedule

SchedSpec == SchedInit /\ [][SchedNext]_vars

\* ---- the MatchAssigner called directly ----------------------------------------------------
AssignRefIds == 1..MaxAssignReferees

\* a referees table: every referee registered or not, in any status, with or
\* without an endpoint URL
RefereeTables ==
    UNION {[S -> [status : AgentStatus, auth_token : {0},
                  endpoint_url : BOOLEAN]] : S \in SUBSET AssignRefIds}

\* a matches table of one round: matches not assigned yet and matches played
MatchTables ==
    UNION {[1..n -> {[round_id |-> 1, players |-> <<1, 2>>, status |-> st,
                      referee_id |-> 0, assigned_at |-> FALSE] :
                         st \in {"PENDING", "COMPLETED"}}] :
              n \in 0..MaxAssignMatches}

\* assign_pending_matches returns the list of assignments
ReturnAssignments ==
    /\ pc = "return"
    /\ resp' = Success
    /\ pc' = "done"
    /\ UNCHANGED <<stateVars, delivered, loc, backlog, req, pre>>

AssignInit ==
    /\ status = "ACTIVE"
    /\ db_league = "ACTIVE"
    /\ referees \in RefereeTables
    /\ players = <<>>
    /\ rounds = <<[round_number |-> 1, status |-> "PENDING"]>>
    /\ matches \in MatchTables
    /\ results = <<>>
    /\ snapshots = <<>>
    /\ tokens = <<>>
    /\ agent_tokens = <<>>
    /\ uuid_ctr = 0
    /\ delivered = {}
    /\ pc = "fetch"
    /\ loc = NoLocals
    /\ backlog = {}
    /\ req = Call("assign_pending_matches", 0, FALSE, "none")
    /\ resp = NoResp
    /\ pre = Snapshot

AssignNext ==
    \/ FetchPending
    \/ PersistAssignment
    \/ DeliverAssignment
    \/ DeliveryFails
    \/ ReturnAssignments

AssignSpec == AssignInit /\ [][AssignNext]_vars

\* ---- result reports and standings queries on a league that was started -------------------
ReportPlayerIds == 1..NumReportPlayers
ReportReferee == NumReportPlayers + 1

\* the schedule of the league and its matches table after the admin start:
\* the matches all PENDING (no referee was ACTIVE) or all ASSIGNED to the
\* referee
ReportSchedule == schedule_rounds([i \in ReportPlayerIds |-> i])

ScheduledMatches == match_rows(ReportSchedule, 1, 1)

ReportMatchTables ==
    {ScheduledMatches,
     [i \in 1..Len(ScheduledMatches) |->
         [ScheduledMatches[i] EXCEPT !.status = "ASSIGNED",
                                     !.referee_id = ReportReferee,
                                     !.assigned_at = TRUE]]}

ReportCall(match_id, outcome, round_id) ==
    WithRound(Msg("MATCH_RESULT_REPORT", <<"referee", ReportReferee>>, 1, 0,
                  FALSE, match_id, outcome, "none"), round_id)

CallMatchResult ==
    \E match_id \in 0..Len(ScheduledMatches), outcome \in Outcomes,
       round_id \in 0..MaxRoundId :
        /\ req' = ReportCall(match_id, outcome, round_id)
        /\ pre' = Snapshot
        /\ match_result(match_id, outcome, round_id)
        /\ UNCHANGED <<delivered, pc, loc, backlog>>

CallQueryStandings ==
    \E round_id \in 0..MaxRoundId :
        /\ req' = WithRound(Msg("QUERY_STANDINGS", <<"referee", ReportReferee>>,
                                1, 0, FALSE, 0, "none", "none"), round_id)
        /\ pre' = Snapshot
        /\ resp' = query_standings(round_id)
        /\ UNCHANGED <<stateVars, delivered, pc, loc, backlog>>

\* the league after the admin start: the referee registered first, then the
\* players; the schedule is stored and the league ACTIVE
ReportInit ==
    /\ status = "ACTIVE"
    /\ db_league = "ACTIVE"
    /\ referees = (ReportReferee :>
           [status |-> "ACTIVE", auth_token |-> 1, endpoint_url |-> TRUE])
    /\ players = [p \in ReportPlayerIds |->
                     [status |-> "REGISTERED", auth_token |-> p + 1]]
    /\ rounds = round_rows(ReportSchedule, 1)
    /\ matches \in ReportMatchTables
    /\ results = <<>>
    /\ snapshots = <<>>
    /\ tokens = [k \in 1..(NumReportPlayers + 1) |->
                    IF k = 1
                    THEN [agent_id |-> ReportReferee, agent_type |-> "referee"]
                    ELSE [agent_id |-> k - 1, agent_type |-> "player"]]
    /\ agent_tokens = [a \in 1..(NumReportPlayers + 1) |->
                          IF a = ReportReferee THEN 1 ELSE a + 1]
    /\ uuid_ctr = NumReportPlayers + 1
    /\ delivered = {}
    /\ pc = "idle"
    /\ loc = NoLocals
    /\ backlog = {}
    /\ req = NoReq
    /\ resp = NoResp
    /\ pre = NoSnapshot

ReportNext ==
    \/ CallMatchResult
    \/ CallQueryStandings

ReportSpec == ReportInit /\ [][ReportNext]_vars

\* ---- the StandingsEngine called directly --------------------------------------------------
StandIds == 1..MaxStandPlayers

\* the results a league may hold, as get_all_results returns them: the report
\* payload is stored as it came, so the outcome of a player and the points of
\* a player are any of the values, whatever the other says
StoredResults ==
    UNION {[outcome : [pair -> {"win", "draw", "loss"}],
            points : [pair -> {0, 3}]] :
              pair \in {S \in SUBSET StandIds : Cardinality(S) = 2}}

ResultTables ==
    UNION {[1..n -> StoredResults] : n \in 0..MaxStandResults}

PlayerTables ==
    UNION {[S -> {[status |-> "REGISTERED", auth_token |-> 0]}] :
              S \in SUBSET StandIds}

\* compute_standings(league_id); results holds the decoded rows
CallComputeStandings ==
    /\ pc = "idle"
    /\ req' = Call("compute_standings", 0, FALSE, "none")
    /\ resp' = Standings(compute_standings(results, DOMAIN players))
    /\ pc' = "done"
    /\ UNCHANGED <<stateVars, delivered, loc, backlog, pre>>

StandInit ==
    /\ status = "ACTIVE"
    /\ db_league = "ACTIVE"
    /\ referees = <<>>
    /\ players \in PlayerTables
    /\ rounds = <<>>
    /\ matches = <<>>
    /\ results \in ResultTables
    /\ snapshots = <<>>
    /\ tokens = <<>>
    /\ agent_tokens = <<>>
    /\ uuid_ctr = 0
    /\ delivered = {}
    /\ pc = "idle"
    /\ loc = NoLocals
    /\ backlog = {}
    /\ req = NoReq
    /\ resp = NoResp
    /\ pre = NoSnapshot

StandNext == CallComputeStandings

StandSpec == StandInit /\ [][StandNext]_vars

\* ---- publish_standings step by step, with a reader -----------------------------------------
\* publish_standings: compute_standings has returned
PublishCompute ==
    /\ pc = "idle"
    /\ Len(snapshots) < MaxPublishes
    /\ \E round_id \in 0..MaxRoundId :
          /\ req' = WithRound(Call("publish_standings", 0, FALSE, "none"), round_id)
          /\ loc' = [standings |-> compute_standings(results, DOMAIN players),
                     snapshot_id |-> 0, k |-> 1]
    /\ pc' = "create"
    /\ UNCHANGED <<stateVars, delivered, backlog, resp, pre>>

\* create_standings_snapshot: the snapshot row is committed
PublishCreateSnapshot ==
    /\ pc = "create"
    /\ snapshots' = Append(snapshots, snapshot_row(req.round, <<>>))
    /\ loc' = [loc EXCEPT !.snapshot_id = Len(snapshots) + 1]
    /\ pc' = "store"
    /\ UNCHANGED <<status, db_league, referees, players, rounds, matches, results,
                   authVars, delivered, backlog, req, resp, pre>>

\* one store_player_ranking call of the loop: it raises, or its row is
\* committed
PublishStoreRanking ==
    /\ pc = "store"
    /\ loc.k <= Len(loc.standings)
    /\ IF store_player_ranking_raises(
              store_player_ranking_call(loc.snapshot_id, loc.standings[loc.k]))
       THEN /\ pc' = "raised"
            /\ UNCHANGED <<snapshots, loc>>
       ELSE /\ snapshots' = [snapshots EXCEPT ![loc.snapshot_id].rankings =
                                 Append(@, loc.standings[loc.k])]
            /\ loc' = [loc EXCEPT !.k = @ + 1]
            /\ pc' = "store"
    /\ UNCHANGED <<status, db_league, referees, players, rounds, matches, results,
                   authVars, delivered, backlog, req, resp, pre>>

\* the loop is over: publish_standings returns the snapshot ID
PublishReturn ==
    /\ pc = "store"
    /\ loc.k > Len(loc.standings)
    /\ pc' = "returned"
    /\ UNCHANGED <<stateVars, delivered, loc, backlog, req, resp, pre>>

\* the caller goes on to its next publish
PublishAgain ==
    /\ pc \in {"raised", "returned"}
    /\ pc' = "idle"
    /\ loc' = NoLocals
    /\ UNCHANGED <<stateVars, delivered, backlog, req, resp, pre>>

\* get_standings in another thread; delivered keeps what it has returned:
\* the snapshot and its rankings
GetStandings ==
    \E round_id \in 0..MaxRoundId :
        LET standings == get_standings(snapshots, round_id)
        IN /\ standings.found
           /\ resp' = Standings(standings.rankings)
           /\ delivered' = delivered \cup
                  {<<standings.snapshot_id, standings.rankings>>}
           /\ UNCHANGED <<stateVars, pc, loc, backlog, req, pre>>

\* a league with registered players and stored results, nothing published
PublishInit ==
    /\ status = "ACTIVE"
    /\ db_league = "ACTIVE"
    /\ referees = <<>>
    /\ players \in PlayerTables
    /\ rounds = <<>>
    /\ matches = <<>>
    /\ results \in {t \in ResultTables : Len(t) <= 1}
    /\ snapshots = <<>>
    /\ tokens = <<>>
    /\ agent_tokens = <<>>
    /\ uuid_ctr = 0
    /\ delivered = {}
    /\ pc = "idle"
    /\ loc = NoLocals
    /\ backlog = {}
    /\ req = NoReq
    /\ resp = NoResp
    /\ pre = NoSnapshot

PublishNext ==
    \/ PublishCompute
    \/ PublishCreateSnapshot
    \/ PublishStoreRanking
    \/ PublishReturn
    \/ PublishAgain
    \/ GetStandings

PublishSpec == PublishInit /\ [][PublishNext]_vars

\* ---- the referee: TicTacToeGame ------------------------------------------------------------
\* cell (row, col) of the board is number 3 * row + col + 1; move 0 stands for
\* a move payload without row and col, or with values that are no cell
Cells == 1..(board_size * board_size)

Moves == {0} \cup Cells

Lines ==
    {{board_size * r + c + 1 : c \in 0..(board_size - 1)} : r \in 0..(board_size - 1)}
    \cup
    {{board_size * r + c + 1 : r \in 0..(board_size - 1)} : c \in 0..(board_size - 1)}
    \cup
    {{board_size * i + i + 1 : i \in 0..(board_size - 1)},
     {board_size * i + (board_size - 1 - i) + 1 : i \in 0..(board_size - 1)}}

EmptyBoard == [c \in Cells |-> ""]

check_winner(board) ==
    IF \E l \in Lines : \A c \in l : board[c] = "X" THEN "X"
    ELSE IF \E l \in Lines : \A c \in l : board[c] = "O" THEN "O"
    ELSE "none"

is_board_full(move_count) == move_count >= board_size * board_size

get_outcome(board, move_count) ==
    IF check_winner(board) = "X" THEN "X_WINS"
    ELSE IF check_winner(board) = "O" THEN "O_WINS"
    ELSE IF is_board_full(move_count) THEN "DRAW"
    ELSE "IN_PROGRESS"

is_terminal(game) == get_outcome(game.board, game.move_count) # "IN_PROGRESS"

validate_move(board, move) == move \in Cells /\ board[move] = ""

get_current_mark(game, pair) ==
    IF game.current_player = pair[1] THEN "X" ELSE "O"

apply_move(game, pair, move) ==
    [game EXCEPT !.board[move] = get_current_mark(game, pair),
                 !.move_count = @ + 1,
                 !.current_player = IF @ = pair[1] THEN pair[2] ELSE pair[1]]

\* TicTacToeGame.get_result: outcome and points per player
game_result(game, pair) ==
    LET outcome == get_outcome(game.board, game.move_count)
    IN IF outcome = "X_WINS" THEN report_payload(pair, "first")
       ELSE IF outcome = "O_WINS" THEN report_payload(pair, "second")
       ELSE report_payload(pair, "draw")

\* ---- the referee: MatchExecutor and RefereeServer -----------------------------------------
\* the exception _request_move raises when the request to the player fails
TimeoutError == "TimeoutError"

NoResult == [keys |-> {}, outcome |-> <<>>, points |-> <<>>]

\* the dictionary execute_match returns when the game ended by itself
match_report(game, pair) ==
    [keys |-> {"match_id", "round_id", "game_type", "players", "outcome",
               "points", "game_metadata"},
     outcome |-> game_result(game, pair).outcome,
     points |-> game_result(game, pair).points]

\* a forfeit result that names the first player of the match the winner
create_forfeit_result_first_player_wins(pair, forfeiting_player) ==
    [keys |-> {"outcome", "points", "game_metadata"},
     outcome |-> (pair[1] :> "win") @@ (forfeiting_player :> "loss"),
     points |-> (pair[1] :> 3) @@ (forfeiting_player :> 0)]

\* _create_forfeit_result: the dictionary execute_match returns on a forfeit
create_forfeit_result(pair, forfeiting_player) ==
    LET winner == IF pair[1] # forfeiting_player THEN pair[1] ELSE pair[2]
    IN [keys |-> {"outcome", "points", "game_metadata"},
        outcome |-> (winner :> "win") @@ (forfeiting_player :> "loss"),
        points |-> (winner :> 3) @@ (forfeiting_player :> 0)]

\* the match the referee runs and its two players
RefereeMatch == 1

MatchPlayers == matches[RefereeMatch].players

\* get_game and the first statements of execute_match: the game is created
\* and initialized
StartMatch ==
    /\ pc = "start"
    /\ loc' = [loc EXCEPT !.board = EmptyBoard,
                          !.current_player = MatchPlayers[1],
                          !.move_count = 0]
    /\ pc' = "invite"
    /\ UNCHANGED <<stateVars, delivered, backlog, req, resp, pre>>

\* the GAME_INVITATION to both players; a failed send is logged only
SendInvitations ==
    /\ pc = "invite"
    /\ pc' = "loop"
    /\ UNCHANGED <<stateVars, delivered, loc, backlog, req, resp, pre>>

\* the except branch of the game loop
forfeit(error) ==
    /\ loc' = [loc EXCEPT !.last = error,
                          !.requests = IF error = "no_url" THEN @ ELSE @ + 1,
                          !.result = create_forfeit_result(MatchPlayers,
                                                           loc.current_player)]
    /\ pc' = "report"

\* one pass of the game loop: the move request to the current player, the
\* validation of the move and its application
RequestMove ==
    /\ pc = "loop"
    /\ ~is_terminal(loc)
    /\ IF loc.current_player \notin loc.player_urls
       THEN forfeit("no_url")
       ELSE \/ forfeit(TimeoutError)
            \/ \E move \in Moves :
                  IF ~validate_move(loc.board, move)
                  THEN forfeit("invalid_move")
                  ELSE /\ loc' = [apply_move(loc, MatchPlayers, move)
                                     EXCEPT !.last = "applied",
                                            !.requests = @ + 1]
                       /\ pc' = "loop"
    /\ UNCHANGED <<stateVars, delivered, backlog, req, resp, pre>>

\* the game is over: GAME_OVER to both players, execute_match returns
GameOver ==
    /\ pc = "loop"
    /\ is_terminal(loc)
    /\ loc' = [loc EXCEPT !.result = match_report(loc, MatchPlayers)]
    /\ pc' = "report"
    /\ UNCHANGED <<stateVars, delivered, backlog, req, resp, pre>>

\* the outcome of a result, as the report payload carries it
reported_outcome(result, pair) ==
    IF result.outcome[pair[1]] = "win" THEN "first"
    ELSE IF result.outcome[pair[1]] = "draw" THEN "draw"
    ELSE "second"

\* _report_result: result['round_id'] raises KeyError when the key is
\* missing, and execute_match_async logs the exception; otherwise the
\* report is sent and the League Manager handles it
ReportResult ==
    /\ pc = "report"
    /\ IF "round_id" \notin loc.result.keys
       THEN UNCHANGED <<stateVars, req, resp, pre>>
       ELSE /\ req' = WithRound(
                   Msg("MATCH_RESULT_REPORT", <<"referee", 1>>, 1, 0, FALSE,
                       RefereeMatch,
                       reported_outcome(loc.result, MatchPlayers), "none"),
                   matches[RefereeMatch].round_id)
            /\ pre' = Snapshot
            /\ match_result(RefereeMatch,
                            reported_outcome(loc.result, MatchPlayers),
                            matches[RefereeMatch].round_id)
    /\ pc' = "ended"
    /\ UNCHANGED <<delivered, loc, backlog>>

\* a started league whose one match was assigned to the referee and
\* delivered with the endpoints of the players that have one
RefereeInit ==
    /\ status = "ACTIVE"
    /\ db_league = "ACTIVE"
    /\ referees = (1 :> [status |-> "ACTIVE", auth_token |-> 1,
                         endpoint_url |-> TRUE])
    /\ players = [p \in 1..2 |-> [status |-> "REGISTERED", auth_token |-> 1]]
    /\ rounds = <<[round_number |-> 1, status |-> "PENDING"]>>
    /\ matches = <<[round_id |-> 1, players |-> <<1, 2>>, status |-> "ASSIGNED",
                    referee_id |-> 1, assigned_at |-> TRUE]>>
    /\ results = <<>>
    /\ snapshots = <<>>
    /\ tokens = (1 :> [agent_id |-> 1, agent_type |-> "referee"])
    /\ agent_tokens = [a \in 1..2 |-> 1]
    /\ uuid_ctr = 1
    /\ delivered = {<<RefereeMatch, 1>>}
    /\ pc = "start"
    /\ \E urls \in SUBSET {1, 2} :
          loc = [board |-> EmptyBoard, current_player |-> 0, move_count |-> 0,
                 requests |-> 0, last |-> "none", result |-> NoResult,
                 player_urls |-> urls]
    /\ backlog = {}
    /\ req = NoReq
    /\ resp = NoResp
    /\ pre = NoSnapshot

RefereeNext ==
    \/ StartMatch
    \/ SendInvitations
    \/ RequestMove
    \/ GameOver
    \/ ReportResult

RefereeSpec == RefereeInit /\ [][RefereeNext]_vars

\* ---- a LeagueState constructed over a store that may hold the league ----------------------
\* LeagueState(league_id, database, config) and initialize(): the object of a
\* process that starts, over the same database file
CallInitialize ==
    /\ req' = Call("initialize", 0, FALSE, "none")
    /\ pre' = Snapshot
    /\ initialize
    /\ resp' = Returned(TRUE)
    /\ pc' = "idle"
    /\ UNCHANGED <<referees, players, rounds, matches, results, snapshots, authVars,
                   delivered, loc, backlog>>

\* transition_to: the lookup in the table of valid transitions
TransitionBegins ==
    /\ pc = "idle"
    /\ \E new_status \in LeagueStatus :
          /\ req' = Call("transition_to", 0, FALSE, new_status)
          /\ IF transition_ok(status, new_status)
             THEN pc' = "update_league_status" /\ resp' = NoResp
             ELSE pc' = "idle" /\ resp' = Returned(FALSE)
    /\ pre' = Snapshot
    /\ UNCHANGED <<stateVars, delivered, loc, backlog>>

\* a transition_to that keeps the new status in memory only
TransitionUpdates_in_memory_only ==
    /\ pc = "update_league_status"
    /\ pc' = "assign"
    /\ UNCHANGED <<stateVars, delivered, loc, backlog, req, resp, pre>>

\* transition_to: update_league_status commits the new status
TransitionUpdates ==
    /\ pc = "update_league_status"
    /\ db_league' = req.new_status
    /\ pc' = "assign"
    /\ UNCHANGED <<status, referees, players, rounds, matches, results, snapshots,
                   authVars, delivered, loc, backlog, req, resp, pre>>

\* transition_to: update_league_status raises, its transaction is rolled back
TransitionUpdateFails ==
    /\ pc = "update_league_status"
    /\ resp' = HandlerError("DATABASE_ERROR")
    /\ pc' = "idle"
    /\ UNCHANGED <<stateVars, delivered, loc, backlog, req, pre>>

\* transition_to: self._status = new_status, return True
TransitionAssigns ==
    /\ pc = "assign"
    /\ status' = req.new_status
    /\ resp' = Returned(TRUE)
    /\ pc' = "idle"
    /\ UNCHANGED <<dbVars, authVars, delivered, loc, backlog, req, pre>>

\* a new database file and a LeagueState that was constructed, not initialized
RestartInit ==
    /\ status = "INIT"
    /\ db_league = "absent"
    /\ referees = <<>>
    /\ players = <<>>
    /\ rounds = <<>>
    /\ matches = <<>>
    /\ results = <<>>
    /\ snapshots = <<>>
    /\ tokens = <<>>
    /\ agent_tokens = <<>>
    /\ uuid_ctr = 0
    /\ delivered = {}
    /\ pc = "idle"
    /\ loc = NoLocals
    /\ backlog = {}
    /\ req = NoReq
    /\ resp = NoResp
    /\ pre = NoSnapshot

\* the calls of the one thread that serves requests, made once initialize has
\* run and while no other call is in progress
ServingCall ==
    /\ get_league
    /\ pc = "idle"
    /\ \/ CallRegisterReferee
       \/ CallRegisterPlayer
       \/ CallUpdateRefereeStatus
       \/ CallAgentReady

\* the process may stop and start again at any point
RestartNext ==
    \/ CallInitialize
    \/ get_league /\ TransitionBegins
    \/ TransitionUpdates
    \/ TransitionUpdateFails
    \/ TransitionAssigns
    \/ ServingCall

RestartSpec == RestartInit /\ [][RestartNext]_vars

\* ---- an AuthManager called from several threads, statement by statement -------------------
\* loc.lock is the thread that holds self._lock (0: none); loc.threads[t] holds
\* the call of thread t, its position and its local variables; delivered
\* collects, for every read of the maps, whether the two maps agreed
NumThreads == 2
Threads == 1..NumThreads

IdleThread == [at |-> "idle", method |-> "none", agent_id |-> 0,
               agent_type |-> "none", token |-> 0]

AuthMethods == {"issue_token", "validate_token", "invalidate_token",
                "invalidate_agent"}

\* the two maps hold the same bindings
Inverse(toks, agent_toks) ==
    /\ \A a \in DOMAIN agent_toks :
          /\ agent_toks[a] \in DOMAIN toks
          /\ toks[agent_toks[a]].agent_id = a
    /\ \A t \in DOMAIN toks :
          /\ toks[t].agent_id \in DOMAIN agent_toks
          /\ agent_toks[toks[t].agent_id] = t

\* a lock that every thread may take at any time
acquire_unlocked(holder) == TRUE

\* threading.Lock: "with self._lock" goes on when no thread holds the lock
acquire(holder) == holder = 0

Goto(t, position) == [loc EXCEPT !.threads[t].at = position]

\* the calls that may still draw a uuid
PendingIssues ==
    Cardinality({t \in Threads : loc.threads[t].method = "issue_token"})

\* a thread calls a method of the AuthManager
ThreadCalls(t) ==
    /\ loc.threads[t].at = "idle"
    /\ \E method \in AuthMethods, agent_id \in AgentIds,
          agent_type \in {"referee", "player"}, token \in 1..MaxUuids :
          /\ method = "issue_token" => uuid_ctr + PendingIssues < MaxUuids
          /\ method \in {"issue_token", "invalidate_agent"} => token = 1
          /\ method \in {"validate_token", "invalidate_token", "invalidate_agent"}
                => agent_type = "referee"
          /\ method \in {"validate_token", "invalidate_token"} => agent_id = 1
          /\ loc' = [loc EXCEPT !.threads[t] =
                        [at |-> "acquire", method |-> method,
                         agent_id |-> agent_id, agent_type |-> agent_type,
                         token |-> token]]
    /\ UNCHANGED <<stateVars, delivered, pc, backlog, req, resp, pre>>

\* with self._lock
ThreadAcquires(t) ==
    /\ loc.threads[t].at = "acquire"
    /\ acquire(loc.lock)
    /\ loc' = [loc EXCEPT !.lock = t, !.threads[t].at = "check"]
    /\ UNCHANGED <<stateVars, delivered, pc, backlog, req, resp, pre>>

\* the first statement under the lock: the membership test of each method
\* (validate_token returns after it)
ThreadChecks(t) ==
    LET call == loc.threads[t]
    IN /\ call.at = "check"
       /\ delivered' = delivered \cup {Inverse(tokens, agent_tokens)}
       /\ loc' =
            CASE call.method = "issue_token" ->
                   IF call.agent_id \in DOMAIN agent_tokens
                   THEN Goto(t, "release") ELSE Goto(t, "mint")
              [] call.method = "validate_token" -> Goto(t, "release")
              [] call.method = "invalidate_token" ->
                   IF call.token \in DOMAIN tokens
                   THEN [loc EXCEPT !.threads[t].at = "del_token",
                                    !.threads[t].agent_id =
                                        tokens[call.token].agent_id]
                   ELSE Goto(t, "release")
              [] call.method = "invalidate_agent" ->
                   IF call.agent_id \in DOMAIN agent_tokens
                   THEN [loc EXCEPT !.threads[t].at = "del_token",
                                    !.threads[t].token =
                                        agent_tokens[call.agent_id]]
                   ELSE Goto(t, "release")
       /\ UNCHANGED <<stateVars, pc, backlog, req, resp, pre>>

\* issue_token: token = str(uuid.uuid4())
ThreadMints(t) ==
    /\ loc.threads[t].at = "mint"
    /\ uuid_ctr' = uuid_ctr + 1
    /\ loc' = [loc EXCEPT !.threads[t].at = "store_token",
                          !.threads[t].token = uuid_ctr + 1]
    /\ UNCHANGED <<status, dbVars, tokens, agent_tokens, delivered, pc, backlog,
                   req, resp, pre>>

\* issue_token: self._tokens[token] = {...}
ThreadStoresToken(t) ==
    LET call == loc.threads[t]
    IN /\ call.at = "store_token"
       /\ tokens' = [k \in DOMAIN tokens \cup {call.token} |->
                        IF k = call.token
                        THEN [agent_id |-> call.agent_id,
                              agent_type |-> call.agent_type]
                        ELSE tokens[k]]
       /\ loc' = Goto(t, "store_agent")
       /\ UNCHANGED <<status, dbVars, agent_tokens, uuid_ctr, delivered, pc,
                      backlog, req, resp, pre>>

\* issue_token: self._agent_tokens[agent_id] = token
ThreadStoresAgent(t) ==
    LET call == loc.threads[t]
    IN /\ call.at = "store_agent"
       /\ agent_tokens' = [a \in DOMAIN agent_tokens \cup {call.agent_id} |->
                              IF a = call.agent_id THEN call.token
                              ELSE agent_tokens[a]]
       /\ loc' = Goto(t, "release")
       /\ UNCHANGED <<status, dbVars, tokens, uuid_ctr, delivered, pc, backlog,
                      req, resp, pre>>

\* invalidate_token, invalidate_agent: del self._tokens[token] (invalidate_agent
\* tests the key first)
ThreadDeletesToken(t) ==
    LET call == loc.threads[t]
    IN /\ call.at = "del_token"
       /\ tokens' = without(tokens, call.token)
       /\ loc' = Goto(t, "del_agent")
       /\ UNCHANGED <<status, dbVars, agent_tokens, uuid_ctr, delivered, pc,
                      backlog, req, resp, pre>>

\* invalidate_token, invalidate_agent: del self._agent_tokens[agent_id]
\* (invalidate_token tests the key first)
ThreadDeletesAgent(t) ==
    LET call == loc.threads[t]
    IN /\ call.at = "del_agent"
       /\ agent_tokens' = without(agent_tokens, call.agent_id)
       /\ loc' = Goto(t, "release")
       /\ UNCHANGED <<status, dbVars, tokens, uuid_ctr, delivered, pc, backlog,
                      req, resp, pre>>

\* the with block ends: the lock is released and the method returns
ThreadReleases(t) ==
    /\ loc.threads[t].at = "release"
    /\ loc' = [loc EXCEPT !.lock = 0, !.threads[t] = IdleThread]
    /\ UNCHANGED <<stateVars, delivered, pc, backlog, req, resp, pre>>

\* a new AuthManager and threads that have not called it yet
LockInit ==
    /\ status = "REGISTRATION"
    /\ db_league = "REGISTRATION"
    /\ referees = <<>>
    /\ players = <<>>
    /\ rounds = <<>>
    /\ matches = <<>>
    /\ results = <<>>
    /\ snapshots = <<>>
    /\ tokens = <<>>
    /\ agent_tokens = <<>>
    /\ uuid_ctr = 0
    /\ delivered = {}
    /\ pc = "idle"
    /\ loc = [lock |-> 0, threads |-> [t \in Threads |-> IdleThread]]
    /\ backlog = {}
    /\ req = NoReq
    /\ resp = NoResp
    /\ pre = NoSnapshot

LockNext ==
    \E t \in Threads :
        \/ ThreadCalls(t)
        \/ ThreadAcquires(t)
        \/ ThreadChecks(t)
        \/ ThreadMints(t)
        \/ ThreadStoresToken(t)
        \/ ThreadStoresAgent(t)
        \/ ThreadDeletesToken(t)
        \/ ThreadDeletesAgent(t)
        \/ ThreadReleases(t)

LockSpec == LockInit /\ [][LockNext]_vars

\* ---- one HTTP request: do_POST and _handle_request ------------------------------------------
\* the "id" of the JSON-RPC body; absent is a body without the key
RequestIds == {"absent", "id-1", "id-2"}
ConversationIds == {"conv-1", "conv-2"}

\* JSONRPCRequest.from_dict: id = data.get("id", "")
request_id(data) == IF data.id = "absent" THEN "" ELSE data.id

\* the JSON-RPC body of a POST to /mcp that passes JSONRPCRequest.from_dict:
\* a message, the id, the conversation ID of its envelope, and whether the
\* envelope passes Envelope.from_dict
JsonRpcBodies ==
    {m @@ [id |-> i, conversation_id |-> c, envelope_valid |-> v] :
        m \in {Msg(t, <<"referee", 1>>, tok, 0, FALSE, 0, "none", "none") :
                  t \in {"ADMIN_GET_STATUS_REQUEST", "AGENT_READY_REQUEST",
                         "GAME_OVER"},
                  tok \in 0..2},
        i \in RequestIds, c \in ConversationIds, v \in BOOLEAN}

\* JSONRPCResponse: result holds an envelope with a conversation ID, or error
\* holds a code
JSONRPCResponse(has_result, conversation_id, code, id) ==
    [has_result |-> has_result, conversation_id |-> conversation_id,
     has_error |-> ~has_result, code |-> code, id |-> id]

\* an error response that does not pass the request ID on
create_error_response_without_id(name, id) ==
    JSONRPCResponse(FALSE, "", ErrorCode(name), "")

create_error_response(name, id) ==
    JSONRPCResponse(FALSE, "", ErrorCode(name), id)

create_success_response(conversation_id, id) ==
    JSONRPCResponse(TRUE, conversation_id, 0, id)

\* what a message handler does: it returns a payload, raises a LeagueError,
\* or raises another exception
HandlerOutcomes ==
    {"payload", "VALIDATION_ERROR", "DUPLICATE_REGISTRATION",
     "REGISTRATION_CLOSED", "DATABASE_ERROR", "Exception"}

\* do_POST: the body is read and parsed, the connection has no response yet
RpcReceive ==
    /\ pc = "idle"
    /\ \E data \in JsonRpcBodies :
          /\ req' = data
          /\ loc' = [request_id |-> request_id(data)]
    /\ delivered' = <<>>
    /\ resp' = NoResp
    /\ pc' = "envelope"
    /\ UNCHANGED <<stateVars, backlog, pre>>

\* _handle_request: Envelope.from_dict, and the ValidationError or
\* ProtocolError it raises
RpcEnvelope ==
    /\ pc = "envelope"
    /\ IF req.envelope_valid
       THEN pc' = "gate" /\ UNCHANGED resp
       ELSE /\ resp' = create_error_response("VALIDATION_ERROR", loc.request_id)
            /\ pc' = "send"
    /\ UNCHANGED <<stateVars, delivered, loc, backlog, req, pre>>

\* _handle_request: the authentication gate and the handler lookup
RpcGate ==
    /\ pc = "gate"
    /\ IF ~authenticated(req)
       THEN /\ resp' = create_error_response(auth_error(req), loc.request_id)
            /\ pc' = "send"
       ELSE IF req.type \notin HandledTypes
       THEN /\ resp' = create_error_response("VALIDATION_ERROR", loc.request_id)
            /\ pc' = "send"
       ELSE pc' = "call" /\ UNCHANGED resp
    /\ UNCHANGED <<stateVars, delivered, loc, backlog, req, pre>>

\* _handle_request: the handler call, the response built from its payload,
\* and the two except branches
RpcHandler ==
    /\ pc = "call"
    /\ \E outcome \in HandlerOutcomes :
          resp' = IF outcome = "payload"
                  THEN create_success_response(req.conversation_id,
                                               loc.request_id)
                  ELSE IF outcome = "Exception"
                  THEN create_error_response("INTERNAL_ERROR", loc.request_id)
                  ELSE create_error_response(outcome, loc.request_id)
    /\ pc' = "send"
    /\ UNCHANGED <<stateVars, delivered, loc, backlog, req, pre>>

\* do_POST: _send_json_response writes the response to the connection
RpcSend ==
    /\ pc = "send"
    /\ delivered' = Append(delivered, resp)
    /\ pc' = "sent"
    /\ UNCHANGED <<stateVars, loc, backlog, req, resp, pre>>

\* the connection is closed; the server thread returns to accept()
RpcClose ==
    /\ pc = "sent"
    /\ pc' = "idle"
    /\ UNCHANGED <<stateVars, delivered, loc, backlog, req, resp, pre>>

\* a league in registration with one registered referee, whose token is 1
RpcInit ==
    /\ status = "REGISTRATION"
    /\ db_league = "REGISTRATION"
    /\ referees = (1 :> [status |-> "REGISTERED", auth_token |-> 1,
                         endpoint_url |-> TRUE])
    /\ players = <<>>
    /\ rounds = <<>>
    /\ matches = <<>>
    /\ results = <<>>
    /\ snapshots = <<>>
    /\ tokens = (1 :> [agent_id |-> 1, agent_type |-> "referee"])
    /\ agent_tokens = (1 :> 1)
    /\ uuid_ctr = 1
    /\ delivered = <<>>
    /\ pc = "idle"
    /\ loc = [request_id |-> ""]
    /\ backlog = {}
    /\ req = NoReq @@ [id |-> "absent", conversation_id |-> "conv-1",
                       envelope_valid |-> FALSE]
    /\ resp = NoResp
    /\ pre = NoSnapshot

\* the steps of the server thread once a request is read
RpcStep ==
    \/ RpcEnvelope
    \/ RpcGate
    \/ RpcHandler
    \/ RpcSend
    \/ RpcClose

RpcNext ==
    \/ RpcReceive
    \/ RpcStep

\* the server thread runs while it has a step to take
RpcSpec == RpcInit /\ [][RpcNext]_vars /\ WF_vars(RpcStep)

\* ---- properties ----------------------------------------------------------------------
LegalTransitions ==
    {<<"INIT", "REGISTRATION">>, <<"REGISTRATION", "SCHEDULING">>,
     <<"SCHEDULING", "ACTIVE">>, <<"ACTIVE", "COMPLETED">>}

\* C1: transition_to(new) returns True, and then sets the in-memory and the
\* persisted status to new, only for the four legal (current, new) pairs;
\* every other call (a self-loop, any call from COMPLETED) returns False,
\* raises nothing and leaves both statuses as they were.
C1_TransitionTable ==
    req.type = "transition_to" =>
        /\ resp.error = "none"
        /\ resp.ok <=> <<pre.status, req.new_status>> \in LegalTransitions
        /\ resp.ok => status = req.new_status /\ db_league = req.new_status
        /\ ~resp.ok => status = pre.status /\ db_league = pre.db_league

\* a self-loop requested from COMPLETED was refused
C1_Witness ==
    /\ req.type = "transition_to"
    /\ pre.status = "COMPLETED"
    /\ req.new_status = "COMPLETED"
    /\ ~resp.ok
    /\ status = "COMPLETED"

\* C2: however the requests in flight interleave (two admin-starts, an
\* admin-start and result reports), the in-memory and the persisted league
\* status change only along INIT -> REGISTRATION -> SCHEDULING -> ACTIVE ->
\* COMPLETED, one step at a time: never backwards, never skipping a state.
C2_StatusOnlyAdvances ==
    [][/\ status' # status => <<status, status'>> \in LegalTransitions
       /\ db_league' # db_league => <<db_league, db_league'>> \in LegalTransitions]_vars

\* a second admin-start waits in the backlog while the first is scheduling
C2_Witness ==
    /\ pc = "activate"
    /\ status = "SCHEDULING"
    /\ \E r \in backlog : r.type = "ADMIN_START_LEAGUE_REQUEST"

\* the agents of a table that count for the quorum
Counted(rows) == {i \in DOMAIN rows : rows[i].status \in {"REGISTERED", "ACTIVE"}}

Quorum(snapshot) ==
    /\ snapshot.status = "REGISTRATION"
    /\ Cardinality(Counted(snapshot.referees)) >= min_referees
    /\ Cardinality(Counted(snapshot.players)) >= min_players

\* C3: ADMIN_START_LEAGUE succeeds only if, when it is handled, the league is
\* in REGISTRATION and the counted referees and the counted players each reach
\* their minimum; otherwise it is answered with a validation error and league
\* status, rounds, matches and assignments stay as they were.
C3_StartNeedsQuorum ==
    (pc = "done" /\ req.type = "ADMIN_START_LEAGUE_REQUEST") =>
        /\ resp.ok => Quorum(pre)
        /\ ~Quorum(pre) =>
            /\ resp = HandlerError("VALIDATION_ERROR")
            /\ status = pre.status
            /\ db_league = pre.db_league
            /\ rounds = pre.rounds
            /\ matches = pre.matches
            /\ delivered = pre.delivered

\* an admin-start refused during REGISTRATION for want of a second player
C3_Witness ==
    /\ pc = "done"
    /\ req.type = "ADMIN_START_LEAGUE_REQUEST"
    /\ pre.status = "REGISTRATION"
    /\ Cardinality(Counted(pre.referees)) >= min_referees
    /\ Cardinality(Counted(pre.players)) = min_players - 1
    /\ resp = HandlerError("VALIDATION_ERROR")
    /\ status = "REGISTRATION"

\* C4: the readiness wait of admin-start terminates: it does not sleep again
\* once a poll sees an ACTIVE referee, it never polls more than MaxWaitTicks
\* times, it is left only into match assignment, and an admin-start that has
\* entered the wait returns success with league status ACTIVE, after a
\* timeout too.
C4_WaitTerminates ==
    /\ [](pc = "wait" => loc.waited < MaxWaitTicks)
    /\ [][(pc = "wait" /\ active_referee_ids(referees) # {})
              => loc'.waited = loc.waited]_vars
    /\ [][(pc = "wait" /\ pc' # "wait") => pc' = "fetch"]_vars
    /\ (pc = "wait") ~> (/\ pc = "done"
                         /\ resp.ok
                         /\ resp.league_status = "ACTIVE"
                         /\ status = "ACTIVE")

\* an admin-start that waited the full time has returned success
C4_Witness ==
    /\ pc = "done"
    /\ req.type = "ADMIN_START_LEAGUE_REQUEST"
    /\ loc.waited = MaxWaitTicks
    /\ resp = Started("ACTIVE")
    /\ status = "ACTIVE"

\* C5: requests are handled concurrently, so the ready signal of a registered
\* referee that reaches the server while admin-start is in its readiness
\* wait, at least one poll before the deadline, is served during the wait:
\* the wait ends before its timeout and matches go to that referee.
C5_ReadyServedDuringWait ==
    (/\ pc \in {"fetch", "assign", "deliver", "return", "done"}
     /\ loc.queued_at >= 0
     /\ loc.queued_at + 1 < MaxWaitTicks)
        => /\ loc.waited < MaxWaitTicks
           /\ pc = "done" => \E i \in 1..Len(matches) : matches[i].referee_id # 0

RegistrationTypes == {"REGISTER_REFEREE_REQUEST", "REGISTER_PLAYER_REQUEST"}

\* the table a registration request writes to, and the agent kind it registers
TableOf(type, snapshot) ==
    IF type = "REGISTER_REFEREE_REQUEST" THEN snapshot.referees ELSE snapshot.players

KindOf(type) == IF type = "REGISTER_REFEREE_REQUEST" THEN "referee" ELSE "player"

\* the request being answered left agent records and token bindings alone
NothingRegistered ==
    /\ referees = pre.referees
    /\ players = pre.players
    /\ tokens = pre.tokens
    /\ agent_tokens = pre.agent_tokens

\* C6: a referee or player registration handled while the league status is
\* not REGISTRATION fails with RegistrationClosed, creates no agent record
\* and issues no token.
C6_RegistrationClosed ==
    (req.type \in RegistrationTypes /\ req.agent # 0 /\ pre.status # "REGISTRATION")
        => (resp = HandlerError("REGISTRATION_CLOSED") /\ NothingRegistered)

\* a referee not registered before was turned away from an ACTIVE league
C6_Witness ==
    /\ req.type = "REGISTER_REFEREE_REQUEST"
    /\ pre.status = "ACTIVE"
    /\ req.agent \notin DOMAIN pre.referees
    /\ resp = HandlerError("REGISTRATION_CLOSED")
    /\ referees = pre.referees

\* C7 as stated: a registration that repeats the agent ID of an agent of the
\* same kind already registered fails with DuplicateRegistration and leaves
\* the record and the token of the first registration as they were.
C7_RepeatIsDuplicate ==
    (/\ req.type \in RegistrationTypes
     /\ req.agent \in DOMAIN TableOf(req.type, pre))
        => (resp = HandlerError("DUPLICATE_REGISTRATION") /\ NothingRegistered)

\* the error a repeated registration is answered with
RepeatError(type, snapshot) ==
    IF snapshot.status # "REGISTRATION" THEN "REGISTRATION_CLOSED"
    ELSE IF type = "REGISTER_PLAYER_REQUEST" /\ Counted(snapshot.referees) = {}
    THEN "PRECONDITION_FAILED"
    ELSE "DUPLICATE_REGISTRATION"

\* C7 amended: of the registrations of one kind that carry the same agent ID
\* at most one succeeds, the first one handled while registration is open
\* (and, for a player, while a referee counts); every later one fails,
\* with DuplicateRegistration while registration is open and with
\* RegistrationClosed once it has closed, and none of them changes the
\* record or the token of the successful one.
C7_AtMostOneSucceeds ==
    req.type \in RegistrationTypes =>
        /\ resp.ok => req.agent \notin DOMAIN TableOf(req.type, pre)
        /\ req.agent \in DOMAIN TableOf(req.type, pre) =>
            /\ resp = HandlerError(RepeatError(req.type, pre))
            /\ NothingRegistered

\* a second registration of a registered player, refused as a duplicate
C7_Witness ==
    /\ req.type = "REGISTER_PLAYER_REQUEST"
    /\ req.agent \in DOMAIN pre.players
    /\ pre.status = "REGISTRATION"
    /\ resp = HandlerError("DUPLICATE_REGISTRATION")
    /\ players = pre.players

\* C8 as stated: a player registration handled while no referee is
\* REGISTERED or ACTIVE fails with PreconditionFailed and creates no player
\* record and no token.
C8_NoRefereeIsPrecondition ==
    (/\ req.type = "REGISTER_PLAYER_REQUEST"
     /\ req.agent # 0
     /\ Counted(pre.referees) = {})
        => (resp = HandlerError("PRECONDITION_FAILED") /\ NothingRegistered)

\* C8 amended: a player registration handled while registration is open and
\* no referee is REGISTERED or ACTIVE fails with PreconditionFailed; handled
\* while registration is closed it fails with RegistrationClosed, referee or
\* not; either way no player record and no token is created.  The
\* registration of a player not registered yet succeeds once a referee is
\* REGISTERED or ACTIVE and registration is open.
C8_PreconditionWhileOpen ==
    (req.type = "REGISTER_PLAYER_REQUEST" /\ req.agent # 0) =>
        /\ (pre.status = "REGISTRATION" /\ Counted(pre.referees) = {})
              => (resp = HandlerError("PRECONDITION_FAILED") /\ NothingRegistered)
        /\ pre.status # "REGISTRATION"
              => (resp = HandlerError("REGISTRATION_CLOSED") /\ NothingRegistered)
        /\ (/\ pre.status = "REGISTRATION"
            /\ Counted(pre.referees) # {}
            /\ req.agent \notin DOMAIN pre.players)
              => (resp.ok /\ req.agent \in DOMAIN players)

\* a player was refused while registration was open and the only referee
\* registered did not count
C8_Witness ==
    /\ req.type = "REGISTER_PLAYER_REQUEST"
    /\ pre.status = "REGISTRATION"
    /\ DOMAIN pre.referees # {}
    /\ Counted(pre.referees) = {}
    /\ resp = HandlerError("PRECONDITION_FAILED")
    /\ players = pre.players

\* C9: after a successful registration of agent i of kind K the agent is
\* persisted with status REGISTERED and the returned token is bound to
\* exactly (i, K): validate_token yields (i, K) and verify_sender accepts
\* the sender "K:i".
C9_TokenBoundToRegistrant ==
    (req.type \in RegistrationTypes /\ resp.ok) =>
        /\ req.agent \in DOMAIN TableOf(req.type, Snapshot)
        /\ TableOf(req.type, Snapshot)[req.agent].status = "REGISTERED"
        /\ TableOf(req.type, Snapshot)[req.agent].auth_token = resp.token
        /\ validate_token(tokens, resp.token)
        /\ tokens[resp.token] =
               [agent_id |-> req.agent, agent_type |-> KindOf(req.type)]
        /\ verify_sender(tokens, resp.token, <<KindOf(req.type), req.agent>>) = "ok"

\* the token of the request is bound, and bound to the sender of the request
BoundToSender(r, snapshot) ==
    /\ r.token \in DOMAIN snapshot.tokens
    /\ r.sender = <<snapshot.tokens[r.token].agent_type,
                    snapshot.tokens[r.token].agent_id>>

\* C10: a message of a type other than the two registrations, admin-start
\* and admin-status reaches its handler only if its token is bound and bound
\* to the envelope's sender; otherwise it is answered with an error and the
\* persisted state, the token bindings and the league status do not change.
C10_GateBeforeHandler ==
    (pc = "done" /\ req.type \notin ExemptTypes) =>
        /\ resp.handler => BoundToSender(req, pre)
        /\ ~BoundToSender(req, pre) =>
            /\ ~resp.ok
            /\ resp.error \in {"VALIDATION_ERROR", "AUTHENTICATION_FAILED",
                               "AUTHORIZATION_FAILED"}
            /\ Snapshot = pre

\* a result report under a bound token and another agent's name was refused
C10_Witness ==
    /\ pc = "done"
    /\ req.type = "MATCH_RESULT_REPORT"
    /\ req.token \in DOMAIN pre.tokens
    /\ resp = Rejected("AUTHORIZATION_FAILED")
    /\ Snapshot = pre

\* the canonical sender string of a bound identity
Canonical(info) ==
    IF info.agent_type = "league_manager" THEN <<"league_manager">>
    ELSE <<info.agent_type, info.agent_id>>

\* C11: verify_sender(token, sender) succeeds if and only if the token is
\* bound when it is called and sender is the canonical string of the bound
\* identity ("league_manager" for the league manager type, "type:id"
\* otherwise); it fails with AuthenticationFailed for an unbound token and
\* with AuthorizationFailed for a bound token and any other sender.
C11_VerifySender ==
    req.type = "verify_sender" =>
        LET bound == req.token \in DOMAIN pre.tokens
        IN /\ resp.ok <=> (bound /\ req.sender = Canonical(pre.tokens[req.token]))
           /\ ~bound => resp = HandlerError("AUTHENTICATION_FAILED")
           /\ (bound /\ req.sender # Canonical(pre.tokens[req.token]))
                 => resp = HandlerError("AUTHORIZATION_FAILED")

\* a token of the league manager type was verified for "league_manager"
C11_Witness ==
    /\ req.type = "verify_sender"
    /\ req.token \in DOMAIN pre.tokens
    /\ pre.tokens[req.token].agent_type = "league_manager"
    /\ req.sender = <<"league_manager">>
    /\ resp.ok

\* C12: issue_token is idempotent: called for an agent ID that holds a token
\* it returns that token and leaves both maps as they were; called for
\* another agent ID it returns a token no other agent ID holds or held, so
\* distinct agent IDs hold distinct tokens.
C12_IssueIdempotent ==
    /\ \A a, b \in DOMAIN agent_tokens : a # b => agent_tokens[a] # agent_tokens[b]
    /\ req.type = "issue_token" =>
        /\ resp.ok
        /\ agent_tokens[req.agent] = resp.token
        /\ IF req.agent \in DOMAIN pre.agent_tokens
           THEN /\ resp.token = pre.agent_tokens[req.agent]
                /\ tokens = pre.tokens
                /\ agent_tokens = pre.agent_tokens
           ELSE /\ resp.token \notin DOMAIN pre.tokens
                /\ \A a \in DOMAIN pre.agent_tokens : pre.agent_tokens[a] # resp.token

\* a second issue_token for an agent ID, here with another agent type,
\* returned the token the agent ID held
C12_Witness ==
    /\ req.type = "issue_token"
    /\ req.agent \in DOMAIN pre.agent_tokens
    /\ pre.tokens[pre.agent_tokens[req.agent]].agent_type # req.new_status
    /\ resp.token = pre.agent_tokens[req.agent]
    /\ tokens = pre.tokens

\* generate_schedule has returned
Scheduled == pc = "done" /\ req.type = "generate_schedule"

\* the indices of the match rows of round k
MatchesOfRound(k) == {i \in 1..Len(matches) : matches[i].round_id = k}

Pair(i) == {matches[i].players[1], matches[i].players[2]}

\* C13: for a list of n distinct player IDs generate_schedule creates
\* n(n-1)/2 matches, exactly one for every unordered pair of the players, each
\* in one of the rounds created, and no player plays twice in a round; for
\* n < 2 it creates no round and no match and raises nothing.
C13_EveryPairOnce ==
    Scheduled =>
        LET n == Len(req.agent)
            ids == {req.agent[i] : i \in 1..n}
        IN /\ resp.ok
           /\ Len(matches) = (n * (n - 1)) \div 2
           /\ \A a, b \in ids : a # b =>
                  Cardinality({i \in 1..Len(matches) : Pair(i) = {a, b}}) = 1
           /\ \A i \in 1..Len(matches) :
                  /\ Cardinality(Pair(i)) = 2
                  /\ Pair(i) \subseteq ids
                  /\ matches[i].round_id \in 1..Len(rounds)
                  /\ matches[i].status = "PENDING"
           /\ \A k \in 1..Len(rounds) : MatchesOfRound(k) # {}
           /\ \A i, j \in 1..Len(matches) :
                  (i # j /\ matches[i].round_id = matches[j].round_id)
                      => Pair(i) \cap Pair(j) = {}
           /\ n < 2 => (rounds = <<>> /\ matches = <<>>)

\* four players given out of order were scheduled in six matches
C13_Witness ==
    /\ Scheduled
    /\ Len(req.agent) = 4
    /\ req.agent[1] > req.agent[2]
    /\ Len(matches) = 6
    /\ Len(rounds) = 3

\* the IDs of a set in ascending order
RECURSIVE Ascending(_)
Ascending(S) ==
    IF S = {} THEN <<>>
    ELSE LET m == CHOOSE x \in S : \A y \in S : x <= y
         IN <<m>> \o Ascending(S \ {m})

\* the round structure that was stored: for every round, in round order,
\* the pairs of its matches in the order they were created
StoredStructure ==
    [k \in 1..Len(rounds) |->
        LET rows == SelectSeq([i \in 1..Len(matches) |-> i],
                              LAMBDA i : matches[i].round_id = k)
        IN [j \in 1..Len(rows) |-> matches[rows[j]].players]]

\* C14: the round structure depends on the set of player IDs only: the rounds
\* are numbered 1..R, and whatever the order of the list given, the structure
\* stored is the one computed for the same IDs listed in ascending order, so
\* any two orderings of a set yield the same structure.
C14_OrderIndependent ==
    Scheduled =>
        /\ \A k \in 1..Len(rounds) : rounds[k].round_number = k
        /\ StoredStructure =
               schedule_rounds(Ascending({req.agent[i] : i \in 1..Len(req.agent)}))

\* a list given in descending order was scheduled with the pair of its two
\* smallest IDs first
C14_Witness ==
    /\ Scheduled
    /\ Len(req.agent) = 3
    /\ \A i \in 1..2 : req.agent[i] > req.agent[i + 1]
    /\ matches[1].players = <<req.agent[3], req.agent[2]>>

\* C15: for n >= 2 players the schedule has the minimum number of rounds:
\* n - 1 when n is even, n when n is odd.
C15_MinimumRounds ==
    (Scheduled /\ Len(req.agent) >= 2) =>
        Len(rounds) = IF Len(req.agent) % 2 = 0 THEN Len(req.agent) - 1
                      ELSE Len(req.agent)

Range(s) == {s[i] : i \in 1..Len(s)}

\* a call of assign_pending_matches that got past its early returns
Assigning == req.type = "assign_pending_matches" /\ loc.active_referees # <<>>

\* C16: each pending match is persisted as ASSIGNED, with the chosen referee
\* and a timestamp, before its delivery is attempted; a failed delivery
\* leaves the matches table and the returned list as they are and moves on to
\* the next pending match, so that when the call returns every match that
\* was pending is ASSIGNED to a referee of the list and the returned list
\* holds exactly the matches whose assignment was delivered.
C16_PersistBeforeDelivery ==
    /\ []((Assigning /\ pc = "deliver") =>
              /\ matches[current_match].status = "ASSIGNED"
              /\ matches[current_match].referee_id = current_referee
              /\ matches[current_match].assigned_at
              /\ <<current_match, current_referee>> \notin delivered)
    /\ [][(Assigning /\ pc = "deliver" /\ delivered' = delivered) =>
              /\ matches' = matches
              /\ loc'.assignments = loc.assignments
              /\ loc'.k = loc.k + 1
              /\ pc' = IF loc.k < Len(loc.pending) THEN "assign" ELSE "return"]_vars
    /\ []((Assigning /\ pc \in {"return", "done"}) =>
              \A m \in Range(loc.pending) :
                  /\ matches[m].status = "ASSIGNED"
                  /\ matches[m].assigned_at
                  /\ matches[m].referee_id \in Range(loc.active_referees)
                  /\ m \in Range(loc.assignments)
                        <=> <<m, matches[m].referee_id>> \in delivered)

\* the first of two pending matches was not delivered and is ASSIGNED, the
\* second was delivered and returned
C16_Witness ==
    /\ Assigning
    /\ pc = "done"
    /\ Len(loc.pending) >= 2
    /\ matches[loc.pending[1]].status = "ASSIGNED"
    /\ loc.pending[1] \notin Range(loc.assignments)
    /\ loc.pending[2] \in Range(loc.assignments)

\* the number of matches of this call that are assigned to a referee
Load(referee_id) ==
    Cardinality({m \in Range(loc.pending) : matches[m].referee_id = referee_id})

\* C17: in one call of assign_pending_matches with k >= 1 ACTIVE referees
\* the j-th pending match goes to the referee at position (j - 1) mod k of
\* the list, so the numbers of matches assigned to two ACTIVE referees differ
\* by at most one.
C17_BalancedLoad ==
    (Assigning /\ pc = "done") =>
        /\ \A j \in 1..Len(loc.pending) :
              matches[loc.pending[j]].referee_id =
                  loc.active_referees[((j - 1) % Len(loc.active_referees)) + 1]
        /\ \A r1, r2 \in Range(loc.active_referees) : Load(r1) - Load(r2) <= 1

\* C18: assign_pending_matches gives matches only to referees that are
\* ACTIVE when it is called and only matches that are PENDING then; when no
\* referee is ACTIVE it returns an empty list, raises nothing, sends nothing
\* and leaves the matches table as it was, every PENDING match without
\* referee.
C18_OnlyActiveReferees ==
    req.type = "assign_pending_matches" =>
        /\ \A i \in 1..Len(matches) :
              matches[i] # pre.matches[i] =>
                  /\ pre.matches[i].status = "PENDING"
                  /\ matches[i].referee_id \in DOMAIN pre.referees
                  /\ pre.referees[matches[i].referee_id].status = "ACTIVE"
        /\ \A a \in delivered : /\ a[2] \in DOMAIN pre.referees
                                 /\ pre.referees[a[2]].status = "ACTIVE"
        /\ (\A i \in DOMAIN pre.referees : pre.referees[i].status # "ACTIVE") =>
              /\ matches = pre.matches
              /\ delivered = {}
              /\ loc.assignments = <<>>
              /\ pc \in {"fetch", "return", "done"}
              /\ pc = "done" => resp.ok

\* a call with pending matches and a REGISTERED referee with an endpoint,
\* but no ACTIVE referee, returned without assigning anything
C18_Witness ==
    /\ req.type = "assign_pending_matches"
    /\ pc = "done"
    /\ resp.ok
    /\ \E i \in 1..Len(pre.matches) : pre.matches[i].status = "PENDING"
    /\ \E i \in DOMAIN pre.referees : /\ pre.referees[i].status = "REGISTERED"
                                       /\ pre.referees[i].endpoint_url
    /\ \A i \in DOMAIN pre.referees : pre.referees[i].status # "ACTIVE"
    /\ matches = pre.matches
    /\ loc.assignments = <<>>

\* the match has a stored result in the table
HasResult(rows, match_id) == \E i \in 1..Len(rows) : rows[i].match_id = match_id

\* C19: in every reachable state a match has at most one row in
\* match_results, and a row, once stored, stays in the table as it is
\* (outcome, points and metadata of the report that was accepted), whatever
\* result reports follow.
C19_ResultsImmutable ==
    /\ [](\A i, j \in 1..Len(results) :
              results[i].match_id = results[j].match_id => i = j)
    /\ [][/\ Len(results') >= Len(results)
           /\ \A i \in 1..Len(results) : results'[i] = results[i]]_vars

\* a second report for a match, with another outcome, left the stored row
C19_Witness ==
    /\ pc = "done"
    /\ req.type = "MATCH_RESULT_REPORT"
    /\ resp.handler
    /\ \E i \in 1..Len(pre.results) : /\ pre.results[i].match_id = req.match
                                       /\ pre.results[i].outcome # req.outcome
    /\ results = pre.results

\* C20: a MATCH_RESULT_REPORT for a match that has a stored result when it
\* is handled is answered with an error of the 4000 series, the validation
\* error when the report passed the authentication gate, and changes no
\* stored result, no match status, no standings snapshot and no league
\* status.
C20_DuplicateRejected ==
    (/\ pc = "done"
     /\ req.type = "MATCH_RESULT_REPORT"
     /\ HasResult(pre.results, req.match)) =>
        /\ ~resp.ok
        /\ ErrorCode(resp.error) \in 4000..4999
        /\ resp.handler => resp.error = "VALIDATION_ERROR"
        /\ results = pre.results
        /\ matches = pre.matches
        /\ snapshots = pre.snapshots
        /\ status = pre.status
        /\ db_league = pre.db_league

\* the handler refused a second report for a match whose result is stored
C20_Witness ==
    /\ pc = "done"
    /\ req.type = "MATCH_RESULT_REPORT"
    /\ HasResult(pre.results, req.match)
    /\ pre.matches[req.match].status = "COMPLETED"
    /\ resp = HandlerError("VALIDATION_ERROR")
    /\ Len(snapshots) = Len(results)

\* the rankings of the stored results and the registered players
CurrentStandings ==
    compute_standings(get_all_results(results, matches), DOMAIN players)

\* the call stored a result
Stored ==
    /\ req.type = "MATCH_RESULT_REPORT"
    /\ Len(results) > Len(pre.results)

C22_LatestSnapshotComplete ==
    results # <<>> =>
        query_standings(0) = Standings(CurrentStandings)

\* C23: whenever no handler is running, the league is COMPLETED if and only
\* if it has matches and every one of them is COMPLETED.
C23_CompletedIffAllMatches ==
    status = "COMPLETED" <=>
        (matches # <<>> /\ all_matches_completed(matches))

\* compute_standings has returned
Computed == pc = "done" /\ req.type = "compute_standings"

\* the players that occur in the outcome of a result
WithResults ==
    UNION {DOMAIN results[i].outcome : i \in 1..Len(results)}

\* entry a of a rankings list is ahead of entry b in the order points
\* descending, wins descending, draws descending, player ID ascending
Ahead(a, b) ==
    \/ a.points > b.points
    \/ a.points = b.points /\ a.wins > b.wins
    \/ a.points = b.points /\ a.wins = b.wins /\ a.draws > b.draws
    \/ /\ a.points = b.points /\ a.wins = b.wins /\ a.draws = b.draws
       /\ a.player_id < b.player_id

\* C26: the list compute_standings returns holds first every player with a
\* result, in the order points descending, wins descending, draws
\* descending, player ID ascending, then every registered player without a
\* result in ascending ID order, each player once, and entry i has rank i.
C26_StandingsOrder ==
    Computed =>
        LET r == resp.standings
            n == Cardinality(WithResults)
        IN /\ Len(r) = Cardinality(WithResults \cup DOMAIN players)
           /\ {r[i].player_id : i \in 1..n} = WithResults
           /\ {r[i].player_id : i \in (n + 1)..Len(r)} =
                  DOMAIN players \ WithResults
           /\ \A i, j \in 1..n : i < j => Ahead(r[i], r[j])
           /\ \A i, j \in (n + 1)..Len(r) :
                  i < j => r[i].player_id < r[j].player_id
           /\ \A i \in 1..Len(r) : r[i].rank = i

\* three players with results of which two are tied down to the ID, and a
\* registered player without a result
C26_Witness ==
    /\ Computed
    /\ Cardinality(WithResults) = 2
    /\ Cardinality(DOMAIN players \ WithResults) = 1
    /\ Len(resp.standings) = 3
    /\ resp.standings[1].points = resp.standings[2].points
    /\ resp.standings[1].wins = resp.standings[2].wins
    /\ resp.standings[1].draws = resp.standings[2].draws

\* two entries are tied in points, wins and draws
Tied(a, b) ==
    a.points = b.points /\ a.wins = b.wins /\ a.draws = b.draws

C29_EmptyStandings ==
    (/\ pc = "done"
     /\ req.type = "QUERY_STANDINGS"
     /\ resp.handler
     /\ ~get_standings(pre.snapshots, req.round).found) =>
        /\ resp.ok
        /\ resp.error = "none"
        /\ resp.standings = <<>>
        /\ Snapshot = pre

\* a query for round 1 was answered with the empty list while the only
\* snapshots were published for no round
C29_Witness ==
    /\ pc = "done"
    /\ req.type = "QUERY_STANDINGS"
    /\ req.round = 1
    /\ pre.snapshots # <<>>
    /\ ~get_standings(pre.snapshots, req.round).found
    /\ resp = Standings(<<>>)

\* the agents table an agent-ready sender names, before and after the call
ReadyTable(snapshot, sender) ==
    IF sender[1] = "referee" THEN snapshot.referees ELSE snapshot.players

\* the sender names a referee or a player whose record is stored
ReadyRecordExists ==
    /\ Len(req.sender) = 2
    /\ req.sender[1] \in {"referee", "player"}
    /\ req.sender[2] \in DOMAIN ReadyTable(pre, req.sender)

\* C30: an AGENT_READY_REQUEST whose sender is "referee:<id>" or
\* "player:<id>" with a stored record is answered with success and sets the
\* status of that record to ACTIVE, leaving its other fields, every other
\* referee and player, the matches, the rounds, the results and the league
\* status as they were; when the sender names no stored record the handler
\* answers with the validation error and changes nothing.
C30_AgentReadyFrame ==
    req.type = "AGENT_READY_REQUEST" =>
        IF ReadyRecordExists
        THEN /\ resp = Success
             /\ Snapshot =
                  IF req.sender[1] = "referee"
                  THEN [pre EXCEPT !.referees[req.sender[2]].status = "ACTIVE"]
                  ELSE [pre EXCEPT !.players[req.sender[2]].status = "ACTIVE"]
        ELSE /\ resp = HandlerError("VALIDATION_ERROR")
             /\ Snapshot = pre

\* a player's signal made it ACTIVE while another player stayed REGISTERED
C30_Witness ==
    /\ req.type = "AGENT_READY_REQUEST"
    /\ req.sender[1] = "player"
    /\ ReadyRecordExists
    /\ pre.players[req.sender[2]].status = "REGISTERED"
    /\ players[req.sender[2]].status = "ACTIVE"
    /\ \E p \in DOMAIN players : players[p].status = "REGISTERED"

Forfeited == loc.last \in {"no_url", TimeoutError, "invalid_move"}

\* C24: when the thread that executes a delivered match has ended, by the
\* end of the game or by a forfeit, the League Manager holds a result for
\* the match and the match is COMPLETED.
C24_EveryMatchReported ==
    pc = "ended" =>
        /\ HasResult(results, RefereeMatch)
        /\ matches[RefereeMatch].status = "COMPLETED"

\* the other player of the match
Opponent(player_id) ==
    IF player_id = MatchPlayers[1] THEN MatchPlayers[2] ELSE MatchPlayers[1]

\* C25: once a move request of the game loop has failed (no answer, no
\* endpoint) or brought an invalid move, the loop is left at once: the
\* result of the match gives the player that was to move the outcome loss
\* with 0 points and the opponent the outcome win with 3 points, and from
\* then on no move is requested, no move is applied and the result stays.
C25_ImmediateForfeit ==
    /\ [](Forfeited =>
            /\ pc \in {"report", "ended"}
            /\ loc.result.outcome = (loc.current_player :> "loss") @@
                                    (Opponent(loc.current_player) :> "win")
            /\ loc.result.points = (loc.current_player :> 0) @@
                                   (Opponent(loc.current_player) :> 3))
    /\ [][Forfeited => /\ loc'.requests = loc.requests
                       /\ loc'.board = loc.board
                       /\ loc'.result = loc.result]_vars
    /\ [][loc'.requests <= loc.requests + 1]_vars

\* the second player answered its second move request with an invalid
\* move, and the match thread has ended
C25_Witness ==
    /\ pc = "ended"
    /\ loc.last = "invalid_move"
    /\ loc.current_player = MatchPlayers[2]
    /\ loc.move_count = 3
    /\ loc.requests = 4

\* ---- C31 ----
\* C31: every request with an id that reaches the message handler gets exactly
\* one JSON-RPC response, whose id is the id of the request and which is
\* either a result whose envelope carries the conversation ID of the request
\* or an error with a numeric code; whatever the handler does (it returns,
\* raises a LeagueError, raises another exception), the response is sent.
AnsweredOnce ==
    pc = "sent" /\ req.id # "absent" =>
        /\ Len(delivered) = 1
        /\ delivered[1].id = req.id
        /\ delivered[1].has_result # delivered[1].has_error
        /\ delivered[1].has_result =>
               delivered[1].conversation_id = req.conversation_id
        /\ delivered[1].has_error => delivered[1].code \in 4000..5009

C31_ExactlyOneResponse ==
    /\ [](AnsweredOnce)
    /\ [](pc \in {"envelope", "gate", "call", "send"} => Len(delivered) = 0)
    /\ (pc = "envelope") ~> (pc = "sent")

\* an unexpected exception of a handler was answered with INTERNAL_ERROR
C31_Witness ==
    /\ pc = "sent"
    /\ req.id = "id-2"
    /\ req.type = "AGENT_READY_REQUEST"
    /\ Len(delivered) = 1
    /\ delivered[1].code = 5000
    /\ delivered[1].id = "id-2"

\* ---- C32 ----
\* C32: initialize on a store without the league creates it with status
\* REGISTRATION, in memory and persisted; initialize on a store that holds the
\* league takes the persisted status and leaves the league row and every
\* agent, round, match and result record as it was.
C32_InitializeLoadsOrCreates ==
    req.type = "initialize" =>
        /\ referees = pre.referees /\ players = pre.players
        /\ rounds = pre.rounds /\ matches = pre.matches
        /\ results = pre.results /\ snapshots = pre.snapshots
        /\ IF pre.db_league = "absent"
           THEN db_league = "REGISTRATION" /\ status = "REGISTRATION"
           ELSE db_league = pre.db_league /\ status = pre.db_league

\* a restart of a league that had left REGISTRATION and has registered agents
C32_Witness ==
    /\ req.type = "initialize"
    /\ pre.db_league = "ACTIVE"
    /\ status = "ACTIVE"
    /\ DOMAIN players # {}
    /\ DOMAIN referees # {}

\* ---- C33 ----
\* C33: whenever no thread holds the lock of the AuthManager the token map and
\* the agent map are mutually inverse, a thread is inside a method body only
\* while it holds the lock, and every read of the maps by any thread found
\* them mutually inverse.
C33_MapsInverse ==
    /\ loc.lock = 0 => Inverse(tokens, agent_tokens)
    /\ \A t \in Threads :
          loc.threads[t].at \notin {"idle", "acquire"} => loc.lock = t
    /\ FALSE \notin delivered

\* one thread is between the two stores of issue_token, the maps disagree,
\* and the other thread waits for the lock with a call that reads them
C33_Witness ==
    /\ loc.threads[1].at = "store_agent"
    /\ ~Inverse(tokens, agent_tokens)
    /\ loc.threads[2].at = "acquire"
    /\ loc.threads[2].method = "validate_token"
    /\ TRUE \in delivered

\* ---- C34 ----
\* C34: the steps of an admin-start come in this order: rounds and matches are
\* stored, all PENDING, only while the status is SCHEDULING; the status becomes
\* ACTIVE only after they are stored; a match leaves PENDING only while the
\* status is ACTIVE. Hence while the status is REGISTRATION or SCHEDULING
\* every stored match is PENDING.
AllPending(ms) == \A i \in 1..Len(ms) : ms[i].status = "PENDING"

StartOrder ==
    /\ matches' # matches /\ Len(matches') > Len(matches) =>
          /\ status = "SCHEDULING" /\ status' = "SCHEDULING"
          /\ matches = <<>> /\ rounds = <<>> /\ rounds' # <<>>
          /\ AllPending(matches')
    /\ status # "ACTIVE" /\ status' = "ACTIVE" =>
          /\ status = "SCHEDULING"
          /\ matches # <<>> /\ matches' = matches
          /\ AllPending(matches)
    /\ (\E i \in 1..Len(matches) :
            /\ matches[i].status = "PENDING"
            /\ i <= Len(matches') /\ matches'[i].status # "PENDING") =>
          status = "ACTIVE"

C34_StartOrder ==
    /\ [](status \in {"REGISTRATION", "SCHEDULING"} => AllPending(matches))
    /\ [][StartOrder]_vars

\* an admin-start that went through all four steps: it has assigned a match
C34_Witness ==
    /\ req.type = "ADMIN_START_LEAGUE_REQUEST"
    /\ pre.status = "REGISTRATION"
    /\ pc = "deliver"
    /\ status = "ACTIVE"
    /\ \E i \in 1..Len(matches) : matches[i].status = "ASSIGNED"

\* ---- C35 ----
\* C35: whatever ADMIN_START_LEAGUE requests were sent, one after another or
\* while an earlier one was being handled, the store holds at most one match
\* for every pair of players and at most one round for every round number.
C35_ScheduledOnce ==
    /\ \A i, j \in 1..Len(matches) :
          i # j => Range(matches[i].players) # Range(matches[j].players)
    /\ \A i, j \in 1..Len(rounds) :
          i # j => rounds[i].round_number # rounds[j].round_number

\* a start request that arrived while the first one was being handled was
\* taken up after it, and refused without a second schedule
C35_Witness ==
    /\ pc = "done"
    /\ req.type = "ADMIN_START_LEAGUE_REQUEST"
    /\ pre.status = "ACTIVE"
    /\ pre.matches # <<>>
    /\ ~resp.ok
    /\ matches = pre.matches
    /\ rounds = pre.rounds

\* ---- C36 ----
\* C36: once the league is initialized, whenever no transition_to call is in
\* progress the in-memory status equals the persisted status; a restart at
\* such a moment leaves the status of the league as it was.
C36_MemoryMatchesStore ==
    /\ [](get_league /\ pc = "idle" => status = db_league)
    /\ [][get_league /\ pc = "idle" /\ req'.type = "initialize" =>
              status' = status /\ db_league' = db_league]_vars

\* a restart of a league that transitions had taken to ACTIVE
C36_Witness ==
    /\ req.type = "initialize"
    /\ pre.status = "ACTIVE"
    /\ pre.db_league = "ACTIVE"
    /\ status = "ACTIVE"
    /\ pc = "idle"

PendingWithActiveReferee ==
    /\ pending_match_ids(matches) # <<>>
    /\ active_referee_ids(referees) # {}

\* C38: no match remains PENDING for ever while an ACTIVE referee exists;
\* when the wait of admin-start expired without an ACTIVE referee and a
\* referee becomes ACTIVE later, the PENDING matches leave that status.
C38_PendingEventuallyAssigned ==
    PendingWithActiveReferee ~> ~PendingWithActiveReferee

\* ---- C39 ----
\* C39: a COMPLETED match has a stored result, and a match that is COMPLETED
\* stays COMPLETED in every step of the server; in particular no step of the
\* assignment loop sets it back to ASSIGNED, with result reports arriving
\* at any time.
C39_CompletedIsFinal ==
    /\ [](\A i \in 1..Len(matches) :
              matches[i].status = "COMPLETED" => get_result(i))
    /\ [][\A i \in 1..Len(matches) :
              matches[i].status = "COMPLETED" =>
                  /\ i <= Len(matches')
                  /\ matches'[i].status = "COMPLETED"]_vars

\* the report for a match that the assignment loop had given to a referee is
\* served: the result is stored and the match COMPLETED
C39_Witness ==
    /\ pc = "done"
    /\ req.type = "MATCH_RESULT_REPORT"
    /\ get_match(req.match)
    /\ pre.matches[req.match].status = "ASSIGNED"
    /\ ~(\E i \in 1..Len(pre.results) : pre.results[i].match_id = req.match)
    /\ matches[req.match].status = "COMPLETED"
    /\ get_result(req.match)

\* ---- C40 ----
\* C40: a MATCH_RESULT_REPORT is answered with success or stores a result
\* only when its sender is the referee the match is assigned to; a report
\* sent by a player, by another referee or for a PENDING match stores nothing.
C40_OnlyAssignedRefereeReports ==
    [][/\ pc = "idle"
       /\ req'.type = "MATCH_RESULT_REPORT"
       /\ resp'.ok \/ results' # results
       => /\ get_match(req'.match)
          /\ matches[req'.match].status # "PENDING"
          /\ req'.sender = <<"referee", matches[req'.match].referee_id>>]_vars
====
